---- MODULE Spec2Model ----
(***************************************************************************)
(* Client-side performance harness of copilot-local-server:                *)
(*   scripts/performance-test.py       PerformanceTester                   *)
(*   monitor-streaming.py              StreamingMonitor                    *)
(*   scripts/performance-benchmark.py  PerformanceBenchmark                *)
(*   test-streaming-fix.py             test_streaming_fix                  *)
(*                                                                         *)
(*   monitoring-dashboard.py           MonitoringDashboard                 *)
(*   scripts/monitor-performance.py    PerformanceMonitor                  *)
(*                                                                         *)
(* Specifications:                                                         *)
(*   Spec         one streaming request, decoded line by line, by each of  *)
(*                the three stream readers;                                *)
(*   SpecRun      one test mode of a tool: the load driver, its result     *)
(*                list and the aggregate computed from it;                 *)
(*   SpecLive     the polling loops of the dashboard and of the monitor;   *)
(*   SpecTimeout  Spec with a server that may stop sending, under weak     *)
(*                fairness;                                                *)
(*   SpecP95      a benchmark building its result from its durations;      *)
(*   SpecRating   the rating classifier on one trends dict;                *)
(*   SpecSuite    one whole execution of a tool: its test modes one after  *)
(*                the other and the overall summary;                       *)
(*   SpecBody     test_single_stream on one whole streamed body;           *)
(*   SpecTrends   the monitor's trend averages over a snapshot history;    *)
(*   SpecDecoders the four stream decoders run on the same streamed body.  *)
(*                                                                         *)
(* Text is modelled as a sequence of tokens. A token is a piece of text    *)
(* the code never looks into (the "data:" tag, one blank, the sentinel,    *)
(* one whole JSON text); strip, startswith, slicing, len and json.loads    *)
(* are computed on the token sequence as Python computes them on the       *)
(* characters. Streamed bodies are valid UTF-8.                            *)
(***************************************************************************)
EXTENDS Integers, Sequences, FiniteSets, TLC

VARIABLES
    tool,      \* Spec: whose reader runs: "perftest", "monitor", "benchmark"
    pc,        \* Spec: "start", "response", "streaming", "returned"
    status,    \* Spec: response.status (0: no response yet)
    seen,      \* Spec: the lines the body has yielded so far
    dec,       \* Spec: the reader's locals (chunks, bytes, content, done, raised)
    outcome,   \* Spec: what the request returned (NoOutcome before)
    cause,     \* Spec: the exception that ended the request ("none" if none)
    mode,      \* SpecRun: the test mode that runs
    rpc,       \* SpecRun: the driver's position: "run", "report", "done", "raised", "interrupted"
    plan,      \* SpecRun: the planned requests (n; clients x per_client)
    idx,       \* SpecRun: the loop variable i of the driver's for loop
    tasks,     \* SpecRun: the coroutines, futures or clients of the driver
    results,   \* SpecRun: the list results / valid_results
    response_times,   \* SpecRun: the benchmark's list of that name
    failed_requests,  \* SpecRun: the benchmark's counter of that name
    clock,     \* SpecRun: wall-clock ticks since the driver's start_time
    report,    \* SpecRun: the aggregate the mode computed (NoReport before)
    answers,   \* SpecRun: what each request met, by request index (history)
    silent,    \* SpecTimeout: the server has stopped sending for good
    prog,      \* SpecLive: the polling program: "dashboard", "monitor"
    lpc,       \* SpecLive: position in the cycle: "fetch", "health", "show", "sleep", "exited"
    metrics,   \* SpecLive: the local metrics of the cycle (None or a snapshot)
    health,    \* SpecLive: the local health of the cycle (None or the health document)
    last_metrics,     \* SpecLive: MonitoringDashboard.last_metrics
    metrics_history,  \* SpecLive: PerformanceMonitor.metrics_history
    screens,   \* SpecLive: the views printed so far, one per cycle (history)
    log_file,  \* SpecLive: the content of the performance log (None: no file)
    exit_code, \* SpecLive: the exit code of the process (NoExit before)
    interrupted,      \* SpecLive: where the interrupt arrived ("no" if none)
    trends,    \* SpecRating: the argument of get_performance_rating
    rating,    \* SpecRating: what it returned ("none" before)
    suite,     \* SpecSuite: the tool whose main runs: "perftest", "monitor"
    phase,     \* SpecSuite: the test mode main is about to run
    num_streams,      \* SpecSuite: run_all_tests(concurrent_streams)
    all_results,      \* SpecSuite: every Outcome of the execution, in order
    overall,   \* SpecSuite: overall_metrics (NoReport before)
    decoded    \* SpecDecoders: where each stream decoder stopped (<<>> before)

execVars == <<tool, pc, status, seen, dec, outcome, cause>>
runVars == <<mode, rpc, plan, idx, tasks, results, response_times, failed_requests,
             clock, report, answers>>
liveVars == <<prog, lpc, metrics, health, last_metrics, metrics_history, screens,
              log_file, exit_code, interrupted>>
ratingVars == <<trends, rating>>
suiteVars == <<suite, phase, num_streams, all_results, overall>>
vars == <<execVars, runVars, silent, liveVars, ratingVars, suiteVars, decoded>>

----------------------------------------------------------------------------
(* Bounds *)

MaxLines == 3      \* lines a streamed body yields before it ends
MaxDur == 2        \* elapsed times are 1..MaxDur clock ticks

Durations == 1..MaxDur

----------------------------------------------------------------------------
(* Tokens and their lengths in characters *)

WS == " "
DataTok == "data:"
DoneTok == "[DONE]"
ChunkA == "{choices:[{delta:{content:a}}]}"     \* {"choices":[{"delta":{"content":"a"}}]}
ChunkB == "{choices:[{delta:{content:b}}]}"     \* {"choices":[{"delta":{"content":"b"}}]}
ChunkNoContent == "{choices:[{delta:{}}]}"      \* {"choices":[{"delta":{}}]}
JsonNumber == "123"                             \* valid JSON, not an object
BadJson == "{bad json"
Junk == "x"

TokLen(t) ==
    CASE t = WS -> 1
      [] t = DataTok -> 5
      [] t = DoneTok -> 6
      [] t = ChunkA -> 39
      [] t = ChunkB -> 39
      [] t = ChunkNoContent -> 26
      [] t = JsonNumber -> 3
      [] t = BadJson -> 9
      [] t = "error" -> 5
      [] t = "Error" -> 5
      [] t = "ok" -> 2
      [] OTHER -> 1

RECURSIVE StrLen(_)
StrLen(s) == IF s = <<>> THEN 0 ELSE TokLen(Head(s)) + StrLen(Tail(s))

RECURSIVE LStrip(_)
LStrip(s) == IF s # <<>> /\ Head(s) = WS THEN LStrip(Tail(s)) ELSE s

RECURSIVE RStrip(_)
RStrip(s) == IF s # <<>> /\ s[Len(s)] = WS THEN RStrip(SubSeq(s, 1, Len(s) - 1)) ELSE s

\* str.strip()
Strip(s) == RStrip(LStrip(s))

\* s.startswith(p)
StartsWith(s, p) == Len(s) >= Len(p) /\ SubSeq(s, 1, Len(p)) = p

DataPrefix == <<DataTok, WS>>          \* 'data: ', 6 characters
DonePrefix == <<DataTok, WS, DoneTok>> \* 'data: [DONE]'

\* line_str[6:].strip()
Payload(line_str) == Strip(SubSeq(line_str, Len(DataPrefix) + 1, Len(line_str)))

\* json.loads(data) returns (no JSONDecodeError): one JSON text, nothing else
JsonTexts == {ChunkA, ChunkB, ChunkNoContent, JsonNumber}
JsonLoads(data) == Len(data) = 1 /\ data[1] \in JsonTexts

\* the parsed value is a dict (has .get)
IsDict(t) == t \in {ChunkA, ChunkB, ChunkNoContent}

\* chunk["choices"][0].get("delta", {}).get("content"), "" when absent
DeltaContent(t) ==
    CASE t = ChunkA -> <<"a">>
      [] t = ChunkB -> <<"b">>
      [] OTHER -> <<>>

----------------------------------------------------------------------------
(* The streamed lines the readers are run on *)

LBlank == <<>>
LGoodA == <<DataTok, WS, ChunkA>>
LGoodB == <<DataTok, WS, ChunkB>>
LPadded == <<WS, DataTok, WS, ChunkNoContent, WS>>
LBad == <<DataTok, WS, BadJson>>
LNonObj == <<DataTok, WS, JsonNumber>>
LDone == <<DataTok, WS, DoneTok>>
LDoneWide == <<DataTok, WS, WS, DoneTok>>
LDoneJunk == <<DataTok, WS, DoneTok, Junk>>
LBareDone == <<DoneTok>>

Lines == {LBlank, LGoodA, LGoodB, LPadded, LBad, LNonObj, LDone, LDoneWide,
          LDoneJunk, LBareDone}

Statuses == {200, 400, 429, 500}

\* str(e) of a transport exception; asyncio.TimeoutError has the empty text
ExcTexts == {"Connection reset", ""}
AttrErrorText == "'int' object has no attribute 'get'"

\* bodies of non-200 responses; only the first parses as JSON
ErrJson == "{error:{message:bad}}"
ErrPlain == "Service Unavailable"
ErrBodies == {ErrJson, ErrPlain}
BodyIsJson(b) == b = ErrJson

----------------------------------------------------------------------------
(* The three stream readers, one line at a time *)

NewDec == [chunks |-> 0, bytes |-> 0, content |-> <<>>, done |-> FALSE, raised |-> FALSE]

\* test_single_stream with the JSONDecodeError not caught: it ends the request
PT_Line_NoCatch(d, line) ==
    LET line_str == Strip(line) IN
    IF StartsWith(line_str, DataPrefix)
    THEN LET data == Payload(line_str) IN
         IF data = <<DoneTok>> THEN [d EXCEPT !.done = TRUE]
         ELSE IF JsonLoads(data)
              THEN [d EXCEPT !.chunks = @ + 1, !.bytes = @ + StrLen(data)]
              ELSE [d EXCEPT !.raised = TRUE]
    ELSE d

\* test_single_stream without the break at [DONE]
PT_Line_NoBreak(d, line) ==
    LET line_str == Strip(line) IN
    IF StartsWith(line_str, DataPrefix)
    THEN LET data == Payload(line_str) IN
         IF JsonLoads(data)
         THEN [d EXCEPT !.chunks = @ + 1, !.bytes = @ + StrLen(data)]
         ELSE d
    ELSE d

\* test_single_stream adding the length of the whole line
PT_Line_WholeLine(d, line) ==
    LET line_str == Strip(line) IN
    IF StartsWith(line_str, DataPrefix)
    THEN LET data == Payload(line_str) IN
         IF data = <<DoneTok>> THEN [d EXCEPT !.done = TRUE]
         ELSE IF JsonLoads(data)
              THEN [d EXCEPT !.chunks = @ + 1, !.bytes = @ + StrLen(line_str)]
              ELSE d
    ELSE d

\* PerformanceTester.test_single_stream, body of the async for
PT_Line(d, line) ==
    LET line_str == Strip(line) IN
    IF StartsWith(line_str, DataPrefix)
    THEN LET data == Payload(line_str) IN
         IF data = <<DoneTok>> THEN [d EXCEPT !.done = TRUE]
         ELSE IF JsonLoads(data)
              THEN [d EXCEPT !.chunks = @ + 1, !.bytes = @ + StrLen(data)]
              ELSE d
    ELSE d

\* StreamingMonitor.test_streaming_request, body of the for over iter_lines
MS_Line(d, line) ==
    IF line = <<>> THEN d
    ELSE LET line_str == Strip(line) IN
         IF StartsWith(line_str, DataPrefix)
         THEN LET data == Payload(line_str) IN
              IF data = <<DoneTok>> THEN [d EXCEPT !.done = TRUE]
              ELSE IF JsonLoads(data)
                   THEN IF IsDict(data[1])
                        THEN [d EXCEPT !.chunks = @ + 1,
                                       !.content = @ \o DeltaContent(data[1])]
                        ELSE [d EXCEPT !.chunks = @ + 1, !.raised = TRUE]
                   ELSE d
         ELSE d

\* PerformanceBenchmark.benchmark_streaming_performance, body of the async for
BS_Line(d, line) ==
    LET line_str == Strip(line) IN
    IF StartsWith(line_str, DonePrefix) THEN [d EXCEPT !.done = TRUE] ELSE d

\* json.loads(s) returns: blanks around the one JSON text are accepted
JsonLoadsText(s) == JsonLoads(Strip(s))

\* test-streaming-fix.py test_streaming_fix, body of the async for; raised
\* is the TypeError of 'choices' in a value that is no container
StreamFix_Line(d, line) ==
    LET line_str == Strip(line) IN
    IF StartsWith(line_str, DataPrefix)
    THEN LET data_part == SubSeq(line_str, Len(DataPrefix) + 1, Len(line_str)) IN
         IF data_part = <<DoneTok>> THEN [d EXCEPT !.done = TRUE]
         ELSE IF JsonLoadsText(data_part)
              THEN LET chunk_data == Strip(data_part)[1] IN
                   IF IsDict(chunk_data)
                   THEN [d EXCEPT !.chunks = @ + 1,
                                  !.content = @ \o DeltaContent(chunk_data)]
                   ELSE [d EXCEPT !.chunks = @ + 1, !.raised = TRUE]
              ELSE d
    ELSE d

ReadStep(t, d, line) ==
    CASE t = "perftest" -> PT_Line(d, line)
      [] t = "monitor" -> MS_Line(d, line)
      [] t = "benchmark" -> BS_Line(d, line)
      [] t = "streamfix" -> StreamFix_Line(d, line)

----------------------------------------------------------------------------
(* What a request returns *)

NoOutcome == [none |-> TRUE]

TestResult(test_name, success, duration, chunks_received, bytes_received, error_message) ==
    [test_name |-> test_name, success |-> success, duration |-> duration,
     chunks_received |-> chunks_received, bytes_received |-> bytes_received,
     error_message |-> error_message]

\* an int test_id as the f-string prints it
TestId(i) == ToString(i)

\* f"stream_{test_id}"
StreamName(test_id) == "stream_" \o test_id

\* test_single_stream: the non-200 return
PT_HttpError(test_id, dur, st, error_text) ==
    TestResult(StreamName(test_id), FALSE, dur, 0, 0,
               "HTTP " \o ToString(st) \o ": " \o error_text)

\* test_single_stream reporting a stream that ended without [DONE] as failed
PT_Success_NeedsDone(test_id, dur, d) ==
    TestResult(StreamName(test_id), d.done, dur, d.chunks, d.bytes,
               IF d.done THEN "" ELSE "incomplete stream")

\* test_single_stream: the return after the loop
PT_Success(test_id, dur, d) ==
    TestResult(StreamName(test_id), TRUE, dur, d.chunks, d.bytes, "")

\* test_single_stream: the except branch
PT_Except(test_id, dur, d, e) ==
    TestResult(StreamName(test_id), FALSE, dur, d.chunks, d.bytes, e)

\* test_streaming_request: result after a response; error is <<>> for None
MS_Result(request_id, st, d, error, dur) ==
    [request_id |-> request_id, status |-> st, chunks |-> d.chunks,
     content |-> d.content, error |-> error, duration |-> dur]

\* test_streaming_request: the error of a non-200 response
MS_HttpError(st, body) ==
    IF BodyIsJson(body) THEN <<body>> ELSE <<"HTTP " \o ToString(st)>>

\* test_streaming_request: the except branch
MS_Except(request_id, e, dur) ==
    [request_id |-> request_id, status |-> 0, error |-> <<e>>,
     duration |-> dur, chunks |-> 0, content |-> <<>>]

\* benchmark_streaming_performance: one iteration appends a response time
\* or increments failed_requests
BS_Ok(dur) == [counted |-> "response_times", duration |-> dur]
BS_Failed == [counted |-> "failed_requests", duration |-> 0]

ExceptOutcome(t, id, dur, d, e) ==
    CASE t = "perftest" -> PT_Except(id, dur, d, e)
      [] t = "monitor" -> MS_Except(id, e, dur)
      [] t = "benchmark" -> BS_Failed

SuccessOutcome(t, id, dur, d) ==
    CASE t = "perftest" -> PT_Success(id, dur, d)
      [] t = "monitor" -> MS_Result(id, 200, d, <<>>, dur)
      [] t = "benchmark" -> BS_Ok(dur)

HttpErrorOutcome(t, id, dur, st, body) ==
    CASE t = "perftest" -> PT_HttpError(id, dur, st, body)
      [] t = "monitor" -> MS_Result(id, st, NewDec, MS_HttpError(st, body), dur)
      [] t = "benchmark" -> BS_Failed

----------------------------------------------------------------------------
(* Spec: one streaming request *)

Tools == {"perftest", "monitor", "benchmark"}

NoReport == [none |-> TRUE]

\* the variables of the specification that is not running
RunIdle ==
    /\ mode = "none"
    /\ rpc = "idle"
    /\ plan = [n |-> 0, clients |-> 0, per_client |-> 0]
    /\ idx = 0
    /\ tasks = <<>>
    /\ results = <<>>
    /\ response_times = <<>>
    /\ failed_requests = 0
    /\ clock = 0
    /\ report = NoReport
    /\ answers = <<>>

None == [none |-> TRUE]

\* the process has not exited
NoExit == -1

LiveIdle ==
    /\ prog = "none"
    /\ lpc = "idle"
    /\ metrics = None
    /\ health = None
    /\ last_metrics = None
    /\ metrics_history = <<>>
    /\ screens = <<>>
    /\ log_file = None
    /\ exit_code = NoExit
    /\ interrupted = "no"

RatingIdle ==
    /\ trends = None
    /\ rating = "none"

SuiteIdle ==
    /\ suite = "none"
    /\ phase = "idle"
    /\ num_streams = 0
    /\ all_results = <<>>
    /\ overall = NoReport

ExecIdle ==
    /\ tool = "none"
    /\ pc = "idle"
    /\ status = 0
    /\ seen = <<>>
    /\ dec = NewDec
    /\ outcome = NoOutcome
    /\ cause = "none"

\* the id the single request of Spec is given
ReqId == IF tool = "perftest" THEN TestId(0) ELSE 0

Init ==
    /\ tool \in Tools
    /\ pc = "start"
    /\ status = 0
    /\ seen = <<>>
    /\ dec = NewDec
    /\ outcome = NoOutcome
    /\ cause = "none"
    /\ RunIdle
    /\ silent = FALSE
    /\ LiveIdle
    /\ RatingIdle
    /\ SuiteIdle
    /\ decoded = <<>>

\* session.post / requests.post answers
Post ==
    /\ pc = "start"
    /\ \E st \in Statuses : status' = st
    /\ pc' = "response"
    /\ UNCHANGED <<runVars, silent, liveVars, ratingVars, suiteVars, decoded, tool, seen, dec, outcome, cause>>

\* session.post / requests.post raises
PostFails ==
    /\ pc = "start"
    /\ \E e \in ExcTexts, dur \in Durations :
          outcome' = ExceptOutcome(tool, ReqId, dur, dec, e)
    /\ pc' = "returned"
    /\ cause' = "transport"
    /\ UNCHANGED <<runVars, silent, liveVars, ratingVars, suiteVars, decoded, tool, status, seen, dec>>

\* the non-200 branch
ErrorResponse ==
    /\ pc = "response"
    /\ status # 200
    /\ \E body \in ErrBodies, dur \in Durations :
          outcome' = HttpErrorOutcome(tool, ReqId, dur, status, body)
    /\ pc' = "returned"
    /\ UNCHANGED <<runVars, silent, liveVars, ratingVars, suiteVars, decoded, tool, status, seen, dec, cause>>

\* test_single_stream: await response.text() raises in the non-200 branch
ErrorBodyFails ==
    /\ pc = "response"
    /\ status # 200
    /\ tool = "perftest"
    /\ \E e \in ExcTexts, dur \in Durations :
          outcome' = ExceptOutcome(tool, ReqId, dur, dec, e)
    /\ pc' = "returned"
    /\ cause' = "transport"
    /\ UNCHANGED <<runVars, silent, liveVars, ratingVars, suiteVars, decoded, tool, status, seen, dec>>

\* the body yields one more line and the loop body runs on it
ReadLine ==
    /\ pc \in {"response", "streaming"}
    /\ status = 200
    /\ Len(seen) < MaxLines
    /\ \E line \in Lines, dur \in Durations :
          LET d == ReadStep(tool, dec, line) IN
          /\ seen' = Append(seen, line)
          /\ dec' = d
          /\ IF d.raised
             THEN /\ outcome' = ExceptOutcome(tool, ReqId, dur, d, AttrErrorText)
                  /\ pc' = "returned"
                  /\ cause' = "attribute"
             ELSE IF d.done
             THEN /\ outcome' = SuccessOutcome(tool, ReqId, dur, d)
                  /\ pc' = "returned"
                  /\ cause' = cause
             ELSE /\ outcome' = outcome
                  /\ pc' = "streaming"
                  /\ cause' = cause
    /\ UNCHANGED <<runVars, silent, liveVars, ratingVars, suiteVars, decoded, tool, status>>

\* the body ends: the loop is left without a break
StreamEnds ==
    /\ pc \in {"response", "streaming"}
    /\ status = 200
    /\ \E dur \in Durations : outcome' = SuccessOutcome(tool, ReqId, dur, dec)
    /\ pc' = "returned"
    /\ UNCHANGED <<runVars, silent, liveVars, ratingVars, suiteVars, decoded, tool, status, seen, dec, cause>>

\* reading the next line raises (reset, timeout)
StreamFails ==
    /\ pc \in {"response", "streaming"}
    /\ status = 200
    /\ \E e \in ExcTexts, dur \in Durations :
          outcome' = ExceptOutcome(tool, ReqId, dur, dec, e)
    /\ pc' = "returned"
    /\ cause' = "transport"
    /\ UNCHANGED <<runVars, silent, liveVars, ratingVars, suiteVars, decoded, tool, status, seen, dec>>

Next ==
    \/ Post
    \/ PostFails
    \/ ErrorResponse
    \/ ErrorBodyFails
    \/ ReadLine
    \/ StreamEnds
    \/ StreamFails

Spec == Init /\ [][Next]_vars

----------------------------------------------------------------------------
(* What a request of a run meets: the server's answer and the transport *)

\* status 0: the post raised exc. Another status: the response arrived; fault
\* says reading it raised exc (after the body yielded lines, for a stream).
Answer(st, body, lines, fault, exc, dur) ==
    [status |-> st, body |-> body, lines |-> lines, fault |-> fault,
     exc |-> exc, dur |-> dur]

AnsOk == Answer(200, "", <<LGoodA, LDone>>, FALSE, "", 2)
AnsNoDone == Answer(200, "", <<LBad, LGoodB>>, FALSE, "", 1)
AnsCut == Answer(200, "", <<LGoodB>>, TRUE, "Connection reset", 1)
Ans429 == Answer(429, ErrJson, <<>>, FALSE, "", 1)
Ans500 == Answer(500, ErrPlain, <<>>, FALSE, "", 2)
AnsRefused == Answer(0, "", <<>>, TRUE, "", 1)

RECURSIVE Drain(_, _, _)
\* the reader's loop over the lines the body yields
Drain(t, d, lines) ==
    IF lines = <<>> \/ d.done \/ d.raised THEN d
    ELSE Drain(t, ReadStep(t, d, Head(lines)), Tail(lines))

\* one whole streaming request of tool t
Execute(t, id, a) ==
    IF a.status = 0 THEN ExceptOutcome(t, id, a.dur, NewDec, a.exc)
    ELSE IF a.status # 200
    THEN IF a.fault /\ t = "perftest"
         THEN ExceptOutcome(t, id, a.dur, NewDec, a.exc)
         ELSE HttpErrorOutcome(t, id, a.dur, a.status, a.body)
    ELSE LET d == Drain(t, NewDec, a.lines) IN
         IF d.raised THEN ExceptOutcome(t, id, a.dur, d, AttrErrorText)
         ELSE IF d.done \/ ~a.fault THEN SuccessOutcome(t, id, a.dur, d)
         ELSE ExceptOutcome(t, id, a.dur, d, a.exc)

----------------------------------------------------------------------------
(* Arithmetic of the aggregates: a float is the exact fraction *)

RECURSIVE GCD(_, _)
GCD(a, b) == IF b = 0 THEN a ELSE GCD(b, a % b)

\* a / b
Ratio(a, b) ==
    IF a = 0 THEN [num |-> 0, den |-> 1]
    ELSE LET g == GCD(a, b) IN [num |-> a \div g, den |-> b \div g]

Whole(a) == Ratio(a, 1)

RECURSIVE SumSeq(_)
SumSeq(q) == IF q = <<>> THEN 0 ELSE Head(q) + SumSeq(Tail(q))

RECURSIVE MinSeq(_)
MinSeq(q) ==
    IF Len(q) = 1 THEN Head(q)
    ELSE LET m == MinSeq(Tail(q)) IN IF Head(q) < m THEN Head(q) ELSE m

RECURSIVE MaxSeq(_)
MaxSeq(q) ==
    IF Len(q) = 1 THEN Head(q)
    ELSE LET m == MaxSeq(Tail(q)) IN IF Head(q) > m THEN Head(q) ELSE m

\* statistics.mean
Mean(q) == Ratio(SumSeq(q), Len(q))

RECURSIVE Insert(_, _)
Insert(x, q) ==
    IF q = <<>> THEN <<x>>
    ELSE IF x <= Head(q) THEN <<x>> \o q ELSE <<Head(q)>> \o Insert(x, Tail(q))

RECURSIVE Sorted(_)
Sorted(q) == IF q = <<>> THEN <<>> ELSE Insert(Head(q), Sorted(Tail(q)))

QuantileN == 20        \* statistics.quantiles(..., n=20)
P95MinSamples == 20    \* ... if len(response_times) >= 20 else 0

\* statistics.quantiles(q, n=20)[18], method 'exclusive'
Quantiles19(q) ==
    LET data == Sorted(q)
        ld == Len(q)
        m == ld + 1
        i == QuantileN - 1
        j0 == (i * m) \div QuantileN
        j == IF j0 < 1 THEN 1 ELSE IF j0 > ld - 1 THEN ld - 1 ELSE j0
        delta == i * m - j * QuantileN
    IN Ratio(data[j] * (QuantileN - delta) + data[j + 1] * delta, QuantileN)

\* the quantile taken of any sample quantiles() accepts
P95_AnySample(q) == IF Len(q) >= 2 THEN Quantiles19(q) ELSE Whole(0)

P95(q) == IF Len(q) >= P95MinSamples THEN Quantiles19(q) ELSE Whole(0)

SelectSuccess(rs, flag) == SelectSeq(rs, LAMBDA r : r.success = flag)

RECURSIVE MapSum(_, _)
MapSum(rs, f) == IF rs = <<>> THEN 0 ELSE Head(rs)[f] + MapSum(Tail(rs), f)

RECURSIVE PositiveDurations(_)
PositiveDurations(rs) ==
    IF rs = <<>> THEN <<>>
    ELSE (IF Head(rs).duration > 0 THEN <<Head(rs).duration>> ELSE <<>>)
         \o PositiveDurations(Tail(rs))

\* the success rate over the successful-only denominator
SuccessRate_OfSuccessful(successful, total) == Ratio(successful * 100, successful)

\* the success rate of successful out of total
SuccessRate(successful, total) == Ratio(successful * 100, total)

\* PerformanceTester.calculate_metrics
calculate_metrics(rs) ==
    IF rs = <<>>
    THEN [total_tests |-> 0, successful_tests |-> 0, failed_tests |-> 0,
          average_duration |-> Whole(0), min_duration |-> Whole(0),
          max_duration |-> Whole(0), total_chunks |-> 0, total_bytes |-> 0,
          throughput_chunks_per_sec |-> Whole(0),
          throughput_bytes_per_sec |-> Whole(0), success_rate |-> Whole(0)]
    ELSE LET successful_results == SelectSuccess(rs, TRUE)
             failed_results == SelectSuccess(rs, FALSE)
             durations == PositiveDurations(rs)
             total_duration == SumSeq(durations)
             total_chunks == MapSum(rs, "chunks_received")
             total_bytes == MapSum(rs, "bytes_received")
         IN [total_tests |-> Len(rs),
             successful_tests |-> Len(successful_results),
             failed_tests |-> Len(failed_results),
             average_duration |-> IF durations # <<>> THEN Mean(durations) ELSE Whole(0),
             min_duration |-> IF durations # <<>> THEN Whole(MinSeq(durations)) ELSE Whole(0),
             max_duration |-> IF durations # <<>> THEN Whole(MaxSeq(durations)) ELSE Whole(0),
             total_chunks |-> total_chunks,
             total_bytes |-> total_bytes,
             throughput_chunks_per_sec |->
                 IF total_duration > 0 THEN Ratio(total_chunks, total_duration) ELSE Whole(0),
             throughput_bytes_per_sec |->
                 IF total_duration > 0 THEN Ratio(total_bytes, total_duration) ELSE Whole(0),
             success_rate |-> SuccessRate(Len(successful_results), Len(rs))]

----------------------------------------------------------------------------
(* SpecRun: one test mode of a tool *)

MaxStreams == 3        \* test_concurrent_streams(num_streams) up to this
MaxIter == 3           \* benchmark_*(iterations) up to this
MaxClients == 2        \* benchmark_concurrent_requests(concurrent, ...) up to this
MaxPerClient == 2      \* benchmark_concurrent_requests(..., requests_per_client)

PT_RateRequests == 5   \* test_rate_limiting: for i in range(5)
PT_ErrorTests == 2     \* test_error_scenarios: len(error_tests)
MS_RateRequests == 3   \* StreamingMonitor.test_rate_limiting: range(3), 3 workers
MS_Streams == 5        \* StreamingMonitor.test_concurrent_streams: range(5), 5 workers

NoPlan == [n |-> 0, clients |-> 0, per_client |-> 0]
Plan(n) == [n |-> n, clients |-> 0, per_client |-> 0]
ClientPlan(c, r) == [n |-> c * r, clients |-> c, per_client |-> r]

PT_Modes == {"pt_concurrent", "pt_rate", "pt_error"}
MS_Modes == {"ms_rate", "ms_concurrent"}
BenchModes == {"bench_caching", "bench_streaming", "bench_concurrent"}
Modes == PT_Modes \cup MS_Modes \cup BenchModes

\* non-streaming answers: a completion, late or not
AnsBody == Answer(200, "{completion}", <<>>, FALSE, "", 1)
AnsBodySlow == Answer(200, "{completion}", <<>>, FALSE, "", 2)
AnsBodyCut == Answer(200, "", <<>>, TRUE, "Connection reset", 1)
\* a 200 whose body is not a completion (an HTML page of a proxy)
AnsBodyHtml == Answer(200, "<html>", <<>>, FALSE, "", 1)

\* response bodies of the error scenarios, as words
CleanBody == <<"ok">>
ErrorBody == <<"error", "ok">>
ErrorCapBody == <<"ok", "Error">>
EmptyBody == <<>>
ScenarioBodies == {CleanBody, ErrorBody, ErrorCapBody, EmptyBody}

ScenarioAnswers ==
    {Answer(st, b, <<>>, FALSE, "", 1) : st \in {200, 400}, b \in ScenarioBodies}
    \cup {Answer(200, CleanBody, <<>>, TRUE, "Connection reset", 1),
          Answer(400, ErrorBody, <<>>, TRUE, "Connection reset", 1),
          Answer(0, EmptyBody, <<>>, TRUE, "Cannot connect", 1)}

\* the answers each mode's requests are run against
ModeAnswers(m) ==
    CASE m = "pt_concurrent" -> {AnsOk, AnsNoDone, AnsCut, Ans429, AnsRefused}
      [] m = "pt_rate" -> {AnsOk, AnsCut, Ans429, Ans500, AnsRefused}
      [] m = "pt_error" -> ScenarioAnswers
      [] m = "ms_rate" -> {AnsOk, Ans429, Ans500, AnsRefused}
      [] m = "ms_concurrent" -> {AnsOk, AnsCut}
      [] m = "bench_streaming" -> {AnsOk, AnsNoDone, AnsCut, Ans500, AnsRefused}
      [] m = "bench_caching" -> {AnsBody, AnsBodySlow, AnsBodyHtml, AnsBodyCut, Ans500, AnsRefused}
      [] m = "bench_concurrent" -> {AnsBody, AnsBodyCut, Ans500}

Running == [st |-> "running"]
Done(r) == [st |-> "done", result |-> r]
\* what gather(return_exceptions=True) returns for a task that raised
Raised(e) == [exception |-> e]
IsException(r) == "exception" \in DOMAIN r

AllDone == \A i \in DOMAIN tasks : tasks[i].st = "done"

InitRun ==
    /\ ExecIdle
    /\ silent = FALSE
    /\ LiveIdle
    /\ RatingIdle
    /\ SuiteIdle
    /\ decoded = <<>>
    /\ mode \in Modes
    /\ rpc = "run"
    /\ plan \in CASE mode = "pt_concurrent" -> {Plan(k) : k \in 0..MaxStreams}
                  [] mode = "pt_rate" -> {Plan(PT_RateRequests)}
                  [] mode = "pt_error" -> {Plan(PT_ErrorTests)}
                  [] mode = "ms_rate" -> {Plan(MS_RateRequests)}
                  [] mode = "ms_concurrent" -> {Plan(MS_Streams)}
                  [] mode = "bench_concurrent" ->
                         {ClientPlan(c, r) : c \in 1..MaxClients, r \in 0..MaxPerClient}
                  [] OTHER -> {Plan(k) : k \in 0..MaxIter}
    /\ idx = 0
    /\ tasks = <<>>
    /\ results = <<>>
    /\ response_times = <<>>
    /\ failed_requests = 0
    /\ clock = 0
    /\ report = NoReport
    /\ answers = <<>>

\* test_concurrent_streams: the loop that creates the coroutines, and gather
\* starting them
PT_Spawn ==
    /\ mode = "pt_concurrent"
    /\ rpc = "run"
    /\ tasks' = [i \in 0..(plan.n - 1) |-> Running]
    /\ rpc' = "gather"
    /\ UNCHANGED <<execVars, silent, liveVars, ratingVars, suiteVars, decoded, mode, plan, idx, results, response_times,
                   failed_requests, clock, report, answers>>

\* a coroutine test_single_stream(session, i, content) returns
PT_TaskReturns ==
    /\ mode = "pt_concurrent"
    /\ rpc = "gather"
    /\ \E i \in DOMAIN tasks, a \in ModeAnswers(mode) :
          /\ tasks[i].st = "running"
          /\ tasks' = [tasks EXCEPT ![i] = Done(Execute("perftest", TestId(i), a))]
          /\ answers' = (i :> a) @@ answers
    /\ UNCHANGED <<execVars, silent, liveVars, ratingVars, suiteVars, decoded, mode, rpc, plan, idx, results, response_times,
                   failed_requests, clock, report>>

\* an exception leaves a coroutine (raised outside its try, or in its handler)
PT_TaskRaises ==
    /\ mode = "pt_concurrent"
    /\ rpc = "gather"
    /\ \E i \in DOMAIN tasks :
          /\ tasks[i].st = "running"
          /\ tasks' = [tasks EXCEPT ![i] = Done(Raised("MemoryError"))]
          /\ answers' = (i :> Answer(0, "", <<>>, TRUE, "MemoryError", 0)) @@ answers
    /\ UNCHANGED <<execVars, silent, liveVars, ratingVars, suiteVars, decoded, mode, rpc, plan, idx, results, response_times,
                   failed_requests, clock, report>>

\* valid_results keeping an exception as gather returned it
ValidResult_NoConvert(i, result) == result

\* test_concurrent_streams: one entry of valid_results
ValidResult(i, result) ==
    IF IsException(result)
    THEN TestResult(StreamName(TestId(i)), FALSE, 0, 0, 0, result.exception)
    ELSE result

\* valid_results with the exceptions filtered out and not converted
ValidResults_Filtered(ts) == SelectSeq(ts, LAMBDA r : ~IsException(r))

\* test_concurrent_streams: valid_results, from what gather returned
ValidResults(ts) == [k \in 1..Len(ts) |-> ValidResult(k - 1, ts[k])]

\* what gather returns: the tasks' results in the order of the tasks
Gathered == [k \in 1..plan.n |-> tasks[k - 1].result]

\* gather returns once every task is done; the exceptions are converted
PT_Gather ==
    /\ mode = "pt_concurrent"
    /\ rpc = "gather"
    /\ AllDone
    /\ results' = ValidResults(Gathered)
    /\ rpc' = "report"
    /\ UNCHANGED <<execVars, silent, liveVars, ratingVars, suiteVars, decoded, mode, plan, idx, tasks, response_times,
                   failed_requests, clock, report, answers>>

\* f"rate_{i}"
RateId(i) == "rate_" \o ToString(i)

\* test_rate_limiting: one turn of the loop (request, append, sleep)
PT_RateRequest ==
    /\ mode = "pt_rate"
    /\ rpc = "run"
    /\ idx < plan.n
    /\ \E a \in ModeAnswers(mode) :
          /\ results' = Append(results, Execute("perftest", RateId(idx), a))
          /\ answers' = (idx :> a) @@ answers
    /\ idx' = idx + 1
    /\ UNCHANGED <<execVars, silent, liveVars, ratingVars, suiteVars, decoded, mode, rpc, plan, tasks, response_times,
                   failed_requests, clock, report>>

\* str.lower() of a word
Lower(w) == IF w = "Error" THEN "error" ELSE w

\* "error" in content, without lower()
HasError_CaseSensitive(content) == \E k \in 1..Len(content) : content[k] = "error"

\* "error" in content.lower()
HasError(content) == \E k \in 1..Len(content) : Lower(content[k]) = "error"

\* f"error_{i}"
ErrorName(i) == "error_" \o ToString(i)

\* test_error_scenarios: the TestResult of scenario i
PT_ErrorResult(i, a) ==
    IF a.status = 0 \/ a.fault
    THEN TestResult(ErrorName(i), TRUE, a.dur, 0, 0, a.exc)
    ELSE LET success == IF a.status = 200 THEN HasError(a.body) ELSE TRUE IN
         TestResult(ErrorName(i), success, a.dur, 0,
                    IF a.status # 200 THEN StrLen(a.body) ELSE 0,
                    IF ~success THEN "Status: " \o ToString(a.status) ELSE "")

\* test_error_scenarios: one turn of the loop
PT_ErrorScenario ==
    /\ mode = "pt_error"
    /\ rpc = "run"
    /\ idx < plan.n
    /\ \E a \in ModeAnswers(mode) :
          /\ results' = Append(results, PT_ErrorResult(idx, a))
          /\ answers' = (idx :> a) @@ answers
    /\ idx' = idx + 1
    /\ UNCHANGED <<execVars, silent, liveVars, ratingVars, suiteVars, decoded, mode, rpc, plan, tasks, response_times,
                   failed_requests, clock, report>>

\* the sequential loop is over
PT_LoopEnds ==
    /\ mode \in {"pt_rate", "pt_error"}
    /\ rpc = "run"
    /\ idx = plan.n
    /\ rpc' = "report"
    /\ UNCHANGED <<execVars, silent, liveVars, ratingVars, suiteVars, decoded, mode, plan, idx, tasks, results, response_times,
                   failed_requests, clock, report, answers>>

\* print_results(test_name, results)
PT_PrintResults ==
    /\ mode \in PT_Modes
    /\ rpc = "report"
    /\ report' = calculate_metrics(results)
    /\ rpc' = "done"
    /\ UNCHANGED <<execVars, silent, liveVars, ratingVars, suiteVars, decoded, mode, plan, idx, tasks, results, response_times,
                   failed_requests, clock, answers>>

----------------------------------------------------------------------------
(* StreamingMonitor: the two thread-pool modes *)

\* executor.submit(self.test_streaming_request, i, ...): a worker is free
MS_Submit ==
    /\ mode \in MS_Modes
    /\ rpc = "run"
    /\ idx < plan.n
    /\ tasks' = (idx :> Running) @@ tasks
    /\ idx' = idx + 1
    /\ UNCHANGED <<execVars, silent, liveVars, ratingVars, suiteVars, decoded, mode, rpc, plan, results, response_times,
                   failed_requests, clock, report, answers>>

\* a future completes and as_completed hands its result to the list
MS_Complete ==
    /\ mode \in MS_Modes
    /\ rpc = "run"
    /\ \E i \in DOMAIN tasks, a \in ModeAnswers(mode) :
          /\ tasks[i].st = "running"
          /\ LET r == Execute("monitor", i, a) IN
             /\ tasks' = [tasks EXCEPT ![i] = Done(r)]
             /\ results' = Append(results, r)
          /\ answers' = (i :> a) @@ answers
    /\ UNCHANGED <<execVars, silent, liveVars, ratingVars, suiteVars, decoded, mode, rpc, plan, idx, response_times,
                   failed_requests, clock, report>>

CountStatus(rs, st) == Len(SelectSeq(rs, LAMBDA r : r.status = st))

\* test_rate_limiting: the counts it prints
MS_RateReport(rs) ==
    [success_count |-> CountStatus(rs, 200),
     rate_limited_count |-> CountStatus(rs, 429),
     total |-> Len(rs)]

\* test_concurrent_streams: the counts it prints
MS_StreamsReport(rs) ==
    LET successful_streams == SelectSeq(rs, LAMBDA r : r.status = 200) IN
    [successful_streams |-> Len(successful_streams),
     average_chunks |->
         IF successful_streams # <<>>
         THEN Ratio(MapSum(successful_streams, "chunks"), Len(successful_streams))
         ELSE Whole(0)]

\* the with block is left (every future is done) and the counts are printed
MS_Report ==
    /\ mode \in MS_Modes
    /\ rpc = "run"
    /\ idx = plan.n
    /\ AllDone
    /\ report' = IF mode = "ms_rate" THEN MS_RateReport(results)
                 ELSE MS_StreamsReport(results)
    /\ rpc' = "done"
    /\ UNCHANGED <<execVars, silent, liveVars, ratingVars, suiteVars, decoded, mode, plan, idx, tasks, results, response_times,
                   failed_requests, clock, answers>>

----------------------------------------------------------------------------
(* PerformanceBenchmark *)

BenchmarkResult(test_name, requests_per_second, average_response_time, p95_response_time, success_rate, total_requests, failed) ==
    [test_name |-> test_name, requests_per_second |-> requests_per_second,
     average_response_time |-> average_response_time,
     p95_response_time |-> p95_response_time, success_rate |-> success_rate,
     total_requests |-> total_requests, failed_requests |-> failed]

\* one non-streaming request: "ok" (200 and the body read), "failed" (another
\* status) or "exception"
PlainRequest(a) ==
    IF a.status = 0 \/ a.fault THEN "exception"
    ELSE IF a.status = 200 THEN "ok" ELSE "failed"

\* benchmark_endpoint_caching: one turn of the loop
BenchCachingRequest ==
    /\ mode = "bench_caching"
    /\ rpc = "run"
    /\ idx < plan.n
    /\ \E a \in ModeAnswers(mode) :
          /\ IF PlainRequest(a) = "ok"
             THEN /\ response_times' = Append(response_times, a.dur)
                  /\ failed_requests' = failed_requests
             ELSE /\ response_times' = response_times
                  /\ failed_requests' = failed_requests + 1
          /\ clock' = clock + a.dur
          /\ answers' = (idx :> a) @@ answers
    /\ idx' = idx + 1
    /\ UNCHANGED <<execVars, silent, liveVars, ratingVars, suiteVars, decoded, mode, rpc, plan, tasks, results, report>>

\* benchmark_streaming_performance: one turn of the loop
BenchStreamingRequest ==
    /\ mode = "bench_streaming"
    /\ rpc = "run"
    /\ idx < plan.n
    /\ \E a \in ModeAnswers(mode) :
          /\ LET r == Execute("benchmark", idx, a) IN
             IF r.counted = "response_times"
             THEN /\ response_times' = Append(response_times, r.duration)
                  /\ failed_requests' = failed_requests
             ELSE /\ response_times' = response_times
                  /\ failed_requests' = failed_requests + 1
          /\ clock' = clock + a.dur
          /\ answers' = (idx :> a) @@ answers
    /\ idx' = idx + 1
    /\ UNCHANGED <<execVars, silent, liveVars, ratingVars, suiteVars, decoded, mode, rpc, plan, tasks, results, report>>

\* the loop of a sequential benchmark is over
BenchLoopEnds ==
    /\ mode \in {"bench_caching", "bench_streaming"}
    /\ rpc = "run"
    /\ idx = plan.n
    /\ rpc' = "report"
    /\ UNCHANGED <<execVars, silent, liveVars, ratingVars, suiteVars, decoded, mode, plan, idx, tasks, results, response_times,
                   failed_requests, clock, report, answers>>

NewClient == [i |-> 0, inflight |-> FALSE, response_times |-> <<>>, t |-> 0]

\* benchmark_concurrent_requests: the client coroutines are created and
\* gather starts them
BenchSpawn ==
    /\ mode = "bench_concurrent"
    /\ rpc = "run"
    /\ tasks' = [c \in 0..(plan.clients - 1) |-> NewClient]
    /\ rpc' = "gather"
    /\ UNCHANGED <<execVars, silent, liveVars, ratingVars, suiteVars, decoded, mode, plan, idx, results, response_times,
                   failed_requests, clock, report, answers>>

\* client_requests: the client posts its next request
ClientSends ==
    /\ mode = "bench_concurrent"
    /\ rpc = "gather"
    /\ \E c \in DOMAIN tasks :
          /\ ~tasks[c].inflight
          /\ tasks[c].i < plan.per_client
          /\ tasks' = [tasks EXCEPT ![c].inflight = TRUE]
    /\ UNCHANGED <<execVars, silent, liveVars, ratingVars, suiteVars, decoded, mode, rpc, plan, idx, results, response_times,
                   failed_requests, clock, report, answers>>

\* client_requests: the rest of the turn, once the request is answered
ClientTurn(cl, a) ==
    [i |-> cl.i + 1,
     inflight |-> FALSE,
     response_times |-> IF PlainRequest(a) = "ok"
                        THEN Append(cl.response_times, a.dur)
                        ELSE cl.response_times,
     t |-> cl.t + a.dur]

ClientReceives ==
    /\ mode = "bench_concurrent"
    /\ rpc = "gather"
    /\ \E c \in DOMAIN tasks, a \in ModeAnswers(mode) :
          /\ tasks[c].inflight
          /\ tasks' = [tasks EXCEPT ![c] = ClientTurn(tasks[c], a)]
          /\ answers' = ((c * plan.per_client + tasks[c].i) :> a) @@ answers
    /\ UNCHANGED <<execVars, silent, liveVars, ratingVars, suiteVars, decoded, mode, rpc, plan, idx, results, response_times,
                   failed_requests, clock, report>>

\* a client counted as finished whenever it has no request outstanding
ClientDone_Idle(cl) == ~cl.inflight

\* client_requests has returned: its loop made every turn
ClientDone(cl) == cl.i = plan.per_client /\ ~cl.inflight

RECURSIVE Flatten(_, _)
\* [rt for client_times in results for rt in client_times], clients c..last
Flatten(ts, c) ==
    IF c \notin DOMAIN ts THEN <<>> ELSE ts[c].response_times \o Flatten(ts, c + 1)

RECURSIVE Slowest(_, _)
\* the time the slowest client took
Slowest(ts, c) ==
    IF c \notin DOMAIN ts THEN 0
    ELSE LET m == Slowest(ts, c + 1) IN IF ts[c].t > m THEN ts[c].t ELSE m

\* gather returns: every client finished its loop
BenchGather ==
    /\ mode = "bench_concurrent"
    /\ rpc = "gather"
    /\ \A c \in DOMAIN tasks : ClientDone(tasks[c])
    /\ response_times' = Flatten(tasks, 0)
    /\ clock' = Slowest(tasks, 0)
    /\ rpc' = "report"
    /\ UNCHANGED <<execVars, silent, liveVars, ratingVars, suiteVars, decoded, mode, plan, idx, tasks, results, failed_requests,
                   report, answers>>

BenchName(m) ==
    CASE m = "bench_caching" -> "Endpoint Caching"
      [] m = "bench_streaming" -> "Streaming Performance"
      [] m = "bench_concurrent" -> "Concurrent Requests"

\* every benchmark reporting its failed_requests counter
BenchFailed_Counter(m, total_requests, successful_requests, failed) == failed

\* what the benchmark reports as failed_requests
BenchFailed(m, total_requests, successful_requests, failed) ==
    IF m = "bench_concurrent" THEN total_requests - successful_requests ELSE failed

\* the BenchmarkResult a benchmark returns
BenchReport(m, total_requests, times, failed, total_time) ==
    LET successful_requests == Len(times) IN
    BenchmarkResult(BenchName(m),
                    Ratio(successful_requests, total_time),
                    IF times # <<>> THEN Mean(times) ELSE Whole(0),
                    P95(times),
                    SuccessRate(successful_requests, total_requests),
                    total_requests,
                    BenchFailed(m, total_requests, successful_requests, failed))

\* the benchmark returns its BenchmarkResult
BenchReturns ==
    /\ mode \in BenchModes
    /\ rpc = "report"
    /\ plan.n > 0
    /\ report' = BenchReport(mode, plan.n, response_times, failed_requests, clock)
    /\ rpc' = "done"
    /\ UNCHANGED <<execVars, silent, liveVars, ratingVars, suiteVars, decoded, mode, plan, idx, tasks, results, response_times,
                   failed_requests, clock, answers>>

\* no request was planned: the success rate divides by zero
BenchRaises ==
    /\ mode \in BenchModes
    /\ rpc = "report"
    /\ plan.n = 0
    /\ rpc' = "raised"
    /\ UNCHANGED <<execVars, silent, liveVars, ratingVars, suiteVars, decoded, mode, plan, idx, tasks, results, response_times,
                   failed_requests, clock, report, answers>>

\* run_all_tests is interrupted (Ctrl-C) while a test mode runs or before its
\* results are printed: the exception leaves test_* and run_all_tests, whose
\* lists are dropped, and main prints that testing stopped
PT_Interrupt ==
    /\ mode \in PT_Modes
    /\ rpc \in {"run", "report"}
    /\ rpc' = "interrupted"
    /\ UNCHANGED <<execVars, silent, liveVars, ratingVars, suiteVars, decoded, mode, plan, idx, tasks, results,
                   response_times, failed_requests, clock, report, answers>>

NextRun ==
    \/ PT_Interrupt
    \/ PT_Spawn
    \/ PT_TaskReturns
    \/ PT_TaskRaises
    \/ PT_Gather
    \/ PT_RateRequest
    \/ PT_ErrorScenario
    \/ PT_LoopEnds
    \/ PT_PrintResults
    \/ MS_Submit
    \/ MS_Complete
    \/ MS_Report
    \/ BenchCachingRequest
    \/ BenchStreamingRequest
    \/ BenchLoopEnds
    \/ BenchSpawn
    \/ ClientSends
    \/ ClientReceives
    \/ BenchGather
    \/ BenchReturns
    \/ BenchRaises

SpecRun == InitRun /\ [][NextRun]_vars

----------------------------------------------------------------------------
(* Properties of one streaming request (Spec) *)

Returned == pc = "returned"

\* the request counts as a success for the tool that ran it
Succeeded(o) ==
    CASE tool = "perftest" -> o.success
      [] tool = "monitor" -> o.status = 200 /\ o.error = <<>>
      [] tool = "benchmark" -> o.counted = "response_times"

OutChunks(o) == IF tool = "perftest" THEN o.chunks_received ELSE o.chunks

Last(s) == s[Len(s)]

\* lines whose payload is not JSON, and lines that carry the text [DONE]
MalformedLines == {LBad, LDoneJunk}
DoneLines == {LDone, LDoneWide, LDoneJunk, LBareDone}
\* lines whose payload json.loads accepts
ParsedLines == {LGoodA, LGoodB, LPadded, LNonObj}

RECURSIVE CountIn(_, _)
CountIn(s, S) ==
    IF s = <<>> THEN 0 ELSE (IF Head(s) \in S THEN 1 ELSE 0) + CountIn(Tail(s), S)

\* C5: a transport exception after k decoded chunks gives a failed Outcome
\* (status 0, the exception's text as error message) whose chunk and byte
\* counts are those accumulated before the failure, not 0.
C5_PartialCountsKept ==
    (Returned /\ cause = "transport") =>
        CASE tool = "perftest" ->
                 /\ ~outcome.success
                 /\ outcome.error_message \in ExcTexts
                 /\ outcome.chunks_received = dec.chunks
                 /\ outcome.bytes_received = dec.bytes
          [] tool = "monitor" ->
                 /\ outcome.status = 0
                 /\ outcome.error \in {<<e>> : e \in ExcTexts}
                 /\ outcome.chunks = dec.chunks
                 /\ outcome.content = dec.content
          [] OTHER -> TRUE

\* C6: a payload that fails to parse never ends the stream and never fails
\* the Outcome: after it the reader is still reading (or the request
\* returned a success, unless the transport failed), the chunks parsed
\* around it are all counted, and a bad chunk followed by [DONE] returns
\* success with zero chunks.
C6_MalformedChunkSkipped ==
    (tool \in {"perftest", "monitor"} /\ seen # <<>>) =>
        /\ Last(seen) \in MalformedLines =>
              \/ pc = "streaming" /\ outcome = NoOutcome
              \/ Returned /\ (cause = "transport" \/ Succeeded(outcome))
        /\ dec.chunks = CountIn(seen, ParsedLines)
        /\ (Returned /\ seen = <<LBad, LDone>>) =>
              /\ Succeeded(outcome)
              /\ OutChunks(outcome) = 0
              /\ tool = "perftest" => outcome.bytes_received = 0
              /\ tool = "monitor" => outcome.content = <<>>

C6_Witness ==
    /\ tool = "perftest"
    /\ Returned
    /\ seen = <<LBad, LGoodA, LDone>>
    /\ outcome.success

\* C7: the reader stops at the line whose payload is [DONE]: no line is read
\* after it, the request has returned with it, and one chunk "a" followed by
\* [DONE] returns exactly one chunk with content "a".
C7_StopsAtSentinel ==
    tool \in {"perftest", "monitor"} =>
        /\ \A i \in 1..(Len(seen) - 1) : seen[i] # LDone
        /\ (seen # <<>> /\ Last(seen) = LDone) =>
              /\ Returned
              /\ Succeeded(outcome)
              /\ OutChunks(outcome) = CountIn(seen, ParsedLines)
        /\ (seen = <<LGoodA, LDone>>) =>
              /\ OutChunks(outcome) = 1
              /\ tool = "perftest" => outcome.bytes_received = StrLen(<<ChunkA>>)
              /\ tool = "monitor" => outcome.content = <<"a">>

C7_Witness ==
    /\ tool = "monitor"
    /\ Returned
    /\ seen = <<LGoodA, LDone>>

\* C8: a 200 body that ends without [DONE] is a successful Outcome with the
\* counts decoded so far; if every chunk was malformed the counts are 0 and
\* the Outcome is still a success.
C8_NoSentinelIsSuccess ==
    (/\ Returned
     /\ status = 200
     /\ cause = "none"
     /\ \A i \in 1..Len(seen) : seen[i] \notin DoneLines) =>
        /\ Succeeded(outcome)
        /\ tool = "perftest" =>
              /\ outcome.chunks_received = CountIn(seen, ParsedLines)
              /\ outcome.error_message = ""
              /\ (\A i \in 1..Len(seen) : seen[i] = LBad) =>
                    outcome.chunks_received = 0 /\ outcome.bytes_received = 0
        /\ tool = "monitor" =>
              /\ outcome.chunks = CountIn(seen, ParsedLines)
              /\ (\A i \in 1..Len(seen) : seen[i] = LBad) =>
                    outcome.chunks = 0 /\ outcome.content = <<>>

C8_Witness ==
    /\ tool = "perftest"
    /\ Returned
    /\ status = 200
    /\ cause = "none"
    /\ seen = <<LBad, LBad>>

----------------------------------------------------------------------------
(* Properties of a run (SpecRun) *)

\* what request i met, and how the claims class it
Met(i) == answers[i]
Completed(a) == a.status = 200 /\ ~a.fault
NumAnswers(P(_)) == Cardinality({i \in DOMAIN answers : P(answers[i])})

DriverReturned == rpc \in {"report", "done"}

\* the id of the Outcome at position k of results
IdAt(k) == IF mode \in PT_Modes THEN results[k].test_name ELSE results[k].request_id
\* the id of logical request i
IdOf(i) == IF mode \in PT_Modes THEN StreamName(TestId(i)) ELSE i

\* C1: N concurrent one-shot requests return exactly N Outcomes, the ids
\* being the indices 0..N-1, each once, whatever the order of completion.
C1_ExactlyNOutcomes ==
    (mode \in {"pt_concurrent", "ms_concurrent", "ms_rate"}
        /\ (IF mode = "pt_concurrent" THEN DriverReturned ELSE rpc = "done")) =>
        /\ Len(results) = plan.n
        /\ \A i \in 0..(plan.n - 1) :
              Cardinality({k \in 1..Len(results) : IdAt(k) = IdOf(i)}) = 1

C1_Witness ==
    /\ mode = "ms_concurrent"
    /\ rpc = "done"
    /\ results[1].request_id = 4
    /\ results[5].request_id = 0

\* C2: in every aggregate successful + failed = total: in the metrics of
\* calculate_metrics, and in each BenchmarkResult, where the successful are
\* the recorded response times and every planned request was answered once.
C2_CountsAddUp ==
    rpc = "done" =>
        /\ mode \in PT_Modes =>
              /\ report.successful_tests + report.failed_tests = report.total_tests
              /\ report.total_tests = Len(results)
        /\ mode \in BenchModes =>
              /\ Len(response_times) + report.failed_requests = report.total_requests
              /\ report.total_requests = Cardinality(DOMAIN answers)
              /\ Len(response_times) = NumAnswers(Completed)

C2_Witness ==
    /\ mode = "bench_concurrent"
    /\ rpc = "done"
    /\ plan.clients = 2
    /\ Len(response_times) = 1
    /\ report.failed_requests = 3

AsPercent(r) == r.num >= 0 /\ r.num <= 100 * r.den

\* C3: the success rate is successful / planned total x 100, failures
\* included in the total, and lies in 0..100.
C3_SuccessRate ==
    rpc = "done" =>
        /\ mode \in PT_Modes =>
              /\ report.success_rate =
                    (IF plan.n = 0 THEN Whole(0)
                     ELSE Ratio(report.successful_tests * 100, plan.n))
              /\ AsPercent(report.success_rate)
        /\ mode \in BenchModes =>
              /\ report.success_rate = Ratio(NumAnswers(Completed) * 100, plan.n)
              /\ report.total_requests = plan.n
              /\ AsPercent(report.success_rate)

C3_Witness ==
    /\ mode = "bench_caching"
    /\ rpc = "done"
    /\ plan.n = 3
    /\ report.failed_requests = 1
    /\ report.success_rate = Ratio(200, 3)

\* C4: no failed request aborts a batch: the driver returns N Outcomes, none
\* of them an exception, and the Outcome of every request that did not
\* complete (other status, transport exception, exception leaving the task)
\* is marked failed.
C4_BatchNeverAborts ==
    /\ mode \in PT_Modes \cup MS_Modes => rpc # "raised"
    /\ (mode = "pt_concurrent" /\ DriverReturned) =>
          /\ Len(results) = plan.n
          /\ \A i \in 0..(plan.n - 1) :
                /\ ~IsException(results[i + 1])
                /\ results[i + 1].test_name = IdOf(i)
                /\ results[i + 1].success = Completed(Met(i))
    /\ (mode \in MS_Modes /\ rpc = "done") =>
          /\ Len(results) = plan.n
          /\ \A k \in 1..Len(results) :
                (results[k].status = 200) = Completed(Met(results[k].request_id))
    /\ mode \in {"pt_concurrent"} \cup MS_Modes =>
          \A i \in DOMAIN tasks :
             (tasks[i].st = "done" /\ Met(i).exc # "MemoryError") =>
                 ~IsException(tasks[i].result)

C4_Witness ==
    /\ mode = "pt_concurrent"
    /\ rpc = "done"
    /\ plan.n = 3
    /\ Met(0) = Ans429
    /\ Met(1).exc = "MemoryError"
    /\ Met(2) = AnsOk

\* the server rejected the invalid request: another status than 200, or a
\* 200 whose body names an error
Rejected(a) ==
    \/ a.status \notin {0, 200}
    \/ a.status = 200 /\ ~a.fault /\ a.body \in {ErrorBody, ErrorCapBody}

\* C9 as stated: an error scenario passes iff the server answered with a
\* non-200 status or with a 200 whose body carries an error indicator.
C9_PassedIffRejected ==
    mode = "pt_error" =>
        \A k \in 1..Len(results) : results[k].success = Rejected(Met(k - 1))

\* C9 as amended: an error scenario passes iff the server answered with a
\* non-200 status or with a 200 whose body carries an error indicator, or the
\* request ended in an exception; a clean 200 is classified failed, a 400
\* passed.
C9_PassedIffRejectedOrException ==
    mode = "pt_error" =>
        \A k \in 1..Len(results) :
            LET a == Met(k - 1) IN
            /\ results[k].success = (Rejected(a) \/ a.status = 0 \/ a.fault)
            /\ results[k].test_name = ErrorName(k - 1)
            /\ (a.status = 200 /\ ~a.fault /\ a.body \in {CleanBody, EmptyBody}) =>
                  ~results[k].success
            /\ (a.status = 400) => results[k].success

C9_Witness ==
    /\ mode = "pt_error"
    /\ rpc = "done"
    /\ Met(0) = Answer(200, CleanBody, <<>>, FALSE, "", 1)
    /\ ~results[1].success
    /\ Met(1) = Answer(400, CleanBody, <<>>, FALSE, "", 1)
    /\ results[2].success

RateLimited(a) == a.status = 429 /\ ~a.fault
FailedOther(a) == ~Completed(a) /\ ~RateLimited(a)

\* C10: in rate-limiting mode the report tallies three classes: succeeded
\* (200), rate-limited (429) and failed (anything else); a 429 is never
\* counted among the failures.
C10_ThreeClasses ==
    /\ (mode = "ms_rate" /\ rpc = "done") =>
          /\ report.success_count = NumAnswers(Completed)
          /\ report.rate_limited_count = NumAnswers(RateLimited)
          /\ report.total - report.success_count - report.rate_limited_count
                = NumAnswers(FailedOther)
    /\ (mode = "pt_rate" /\ rpc = "done") =>
          /\ report.successful_tests = NumAnswers(Completed)
          /\ report.failed_tests = NumAnswers(FailedOther)

----------------------------------------------------------------------------
(* SpecLive: the polling loops.                                            *)
(*   monitoring-dashboard.py         MonitoringDashboard.run               *)
(*   scripts/monitor-performance.py  PerformanceMonitor.run_monitoring     *)
(* A JSON document is a record tagged with its type; a dict carries its    *)
(* keys as further fields.                                                 *)

MaxPolls == 3      \* poll cycles a run goes through

\* values the server's counters take
Counts == {2, 5}

EmptyDict == [json |-> "dict"]
ListDoc == [json |-> "list"]
NotJson == [json |-> "invalid"]
Snapshot(active, total) ==
    [json |-> "dict", streams |-> [active |-> active, total |-> total, maxConcurrent |-> 10]]
ZeroCap == [json |-> "dict", streams |-> [active |-> 2, total |-> 2, maxConcurrent |-> 0]]
NoStreams == [json |-> "dict", uptime |-> "1h"]
HealthDoc == [json |-> "dict", status |-> "ok"]

\* bool(x) of a fetched value
Truthy(x) == x # None /\ x # EmptyDict
HasStreams(m) == "streams" \in DOMAIN m

\* what a GET meets: status 0 is an exception of requests / aiohttp
FetchAnswer(st, exc, body) == [status |-> st, exc |-> exc, body |-> body]
Refused == FetchAnswer(0, "Connection refused", None)
TimedOut == FetchAnswer(0, "Read timed out", None)
MetricsAnswers ==
    {Refused, TimedOut, FetchAnswer(503, "", NotJson)}
    \cup {FetchAnswer(200, "", b) : b \in {NotJson, EmptyDict, ListDoc, NoStreams, ZeroCap}}
    \cup {FetchAnswer(200, "", Snapshot(a, t)) : a \in Counts, t \in Counts}
HealthAnswers == {Refused, FetchAnswer(200, "", HealthDoc)}

\* get_metrics letting the exception of requests.get through
get_metrics_Reraise(a) ==
    IF a.status = 0 THEN Raised(a.exc)
    ELSE IF a.status = 200 /\ a.body # NotJson THEN a.body ELSE None

\* MonitoringDashboard.get_metrics
get_metrics(a) ==
    IF a.status = 0 THEN None
    ELSE IF a.status = 200
    THEN IF a.body = NotJson THEN None ELSE a.body
    ELSE None

\* MonitoringDashboard.get_health
get_health(a) ==
    IF a.status = 0 THEN None
    ELSE IF a.status = 200
    THEN IF a.body = NotJson THEN None ELSE a.body
    ELSE None

\* a trend text: the arrow and what follows the blank
TrendUp(d) == <<"NE", "+" \o ToString(d)>>
TrendDown(d) == <<"SE", "-" \o ToString(d)>>
TrendStable == <<"E", "stable">>
TrendInitial == <<"E", "initial">>

\* calculate_trends with a missing last_metrics read as zero counters
calculate_trends_FromZero(last, current) ==
    [streams |-> IF current.streams.active > 0
                 THEN TrendUp(current.streams.active) ELSE TrendStable,
     requests |-> IF current.streams.total > 0
                  THEN TrendUp(current.streams.total) ELSE TrendStable]

\* the trends of current against a truthy last_metrics
TrendsAgainst(last, current) ==
    LET current_streams == current.streams.active
        last_streams == last.streams.active
        new_requests == current.streams.total - last.streams.total
    IN [streams |-> IF current_streams > last_streams
                    THEN TrendUp(current_streams - last_streams)
                    ELSE IF current_streams < last_streams
                    THEN TrendDown(last_streams - current_streams)
                    ELSE TrendStable,
        requests |-> IF new_requests > 0 THEN TrendUp(new_requests) ELSE TrendStable]

\* the trends of the first snapshot
TrendsInitial(last, current) == [streams |-> TrendInitial, requests |-> TrendInitial]

\* calculate_trends comparing with no stored snapshot
calculate_trends_Forgetful(last, current) == TrendsInitial(last, current)

\* MonitoringDashboard.calculate_trends (last: self.last_metrics)
calculate_trends(last, current) ==
    IF Truthy(last)
    THEN IF ~HasStreams(current) \/ ~HasStreams(last)
         THEN Raised("KeyError")
         ELSE TrendsAgainst(last, current)
    ELSE TrendsInitial(last, current)

Upper(w) == CASE w = "ok" -> "OK" [] OTHER -> w

\* what one cycle printed: error names the exception that cut the view short
\* and counters the active and total counts printed before the trends
DashboardView(hl, counters, ts, tr, error) ==
    [view |-> "dashboard", health |-> hl, counters |-> counters, streams |-> ts,
     requests |-> tr, error |-> error]
UnableView ==
    [view |-> "unable", health |-> "", counters |-> <<>>, streams |-> <<>>,
     requests |-> <<>>, error |-> ""]

\* MonitoringDashboard.display_dashboard
display_dashboard(m, h, last) ==
    LET hl == IF Truthy(h) THEN Upper(h.status) ELSE "UNREACHABLE" IN
    IF m.json # "dict" THEN DashboardView(hl, <<>>, <<>>, <<>>, "AttributeError")
    ELSE LET t == calculate_trends(last, m)
             counters == IF HasStreams(m) THEN <<m.streams.active, m.streams.total>>
                         ELSE <<0, 0>>
         IN
         IF IsException(t) THEN DashboardView(hl, <<>>, <<>>, <<>>, t.exception)
         ELSE IF HasStreams(m) /\ m.streams.maxConcurrent = 0
         THEN DashboardView(hl, counters, t.streams, t.requests, "ZeroDivisionError")
         ELSE DashboardView(hl, counters, t.streams, t.requests, "")

\* the loop body without its sleep
StepAfter_NoSleep(p, step) ==
    CASE step = "fetch" -> IF p = "dashboard" THEN "health" ELSE "show"
      [] step = "health" -> "show"
      [] step = "show" -> "fetch"
      [] step = "sleep" -> "fetch"

\* the loop body of while True: the position after the statement at step
\* (the dashboard fetches the health after the metrics, the monitor does not)
StepAfter(p, step) ==
    CASE step = "fetch" -> IF p = "dashboard" THEN "health" ELSE "show"
      [] step = "health" -> "show"
      [] step = "show" -> "sleep"
      [] step = "sleep" -> "fetch"

\* run: metrics = self.get_metrics()
DashFetch ==
    /\ prog = "dashboard"
    /\ lpc = "fetch"
    /\ Len(screens) < MaxPolls
    /\ \E a \in MetricsAnswers :
          LET m == get_metrics(a) IN
          IF IsException(m)
          THEN /\ lpc' = "exited"
               /\ exit_code' = 1
               /\ metrics' = metrics
          ELSE /\ lpc' = StepAfter(prog, lpc)
               /\ exit_code' = exit_code
               /\ metrics' = m
    /\ UNCHANGED <<execVars, runVars, silent, ratingVars, suiteVars, decoded, prog, health, last_metrics,
                   metrics_history, screens, log_file, interrupted>>

\* run: health = self.get_health()
DashHealth ==
    /\ prog = "dashboard"
    /\ lpc = "health"
    /\ \E a \in HealthAnswers : health' = get_health(a)
    /\ lpc' = StepAfter(prog, lpc)
    /\ UNCHANGED <<execVars, runVars, silent, ratingVars, suiteVars, decoded, prog, metrics, last_metrics,
                   metrics_history, screens, log_file, exit_code, interrupted>>

\* run: the if metrics / else of one cycle; except Exception: sys.exit(1)
DashShow ==
    /\ prog = "dashboard"
    /\ lpc = "show"
    /\ IF Truthy(metrics)
       THEN LET v == display_dashboard(metrics, health, last_metrics) IN
            /\ screens' = Append(screens, v)
            /\ IF v.error = ""
               THEN /\ last_metrics' = metrics
                    /\ lpc' = StepAfter(prog, lpc)
                    /\ exit_code' = exit_code
               ELSE /\ last_metrics' = last_metrics
                    /\ lpc' = "exited"
                    /\ exit_code' = 1
       ELSE /\ screens' = Append(screens, UnableView)
            /\ last_metrics' = last_metrics
            /\ lpc' = StepAfter(prog, lpc)
            /\ exit_code' = exit_code
    /\ UNCHANGED <<execVars, runVars, silent, ratingVars, suiteVars, decoded, prog, metrics, health,
                   metrics_history, log_file, interrupted>>

\* run: time.sleep(refresh_interval) returns
DashWake ==
    /\ prog = "dashboard"
    /\ lpc = "sleep"
    /\ lpc' = StepAfter(prog, lpc)
    /\ UNCHANGED <<execVars, runVars, silent, ratingVars, suiteVars, decoded, prog, metrics, health, last_metrics,
                   metrics_history, screens, log_file, exit_code, interrupted>>

\* run: except KeyboardInterrupt: sys.exit(0)
DashInterrupt ==
    /\ prog = "dashboard"
    /\ lpc \in {"fetch", "health", "show", "sleep"}
    /\ interrupted' = lpc
    /\ lpc' = "exited"
    /\ exit_code' = 0
    /\ UNCHANGED <<execVars, runVars, silent, ratingVars, suiteVars, decoded, prog, metrics, health, last_metrics,
                   metrics_history, screens, log_file>>

\* PerformanceMonitor.collect_metrics, at time t
collect_metrics(a, t) ==
    IF a.status = 200 /\ a.body.json = "dict"
    THEN a.body @@ [timestamp |-> t]
    ELSE None

MonitorView ==
    [view |-> "monitor", health |-> "", counters |-> <<>>, streams |-> <<>>,
     requests |-> <<>>, error |-> ""]

LogFile(name, content) == [name |-> name, content |-> content]

\* save_metrics_log never writing the file
save_metrics_log_Never(history, old, t) == old

\* PerformanceMonitor.save_metrics_log, at time t (old: the file before)
save_metrics_log(history, old, t) ==
    IF history # <<>> THEN LogFile(t, history) ELSE old

\* the time of the running cycle
Now == Len(screens) + 1

\* run_monitoring: metrics = await self.collect_metrics()
MonCollect ==
    /\ prog = "monitor"
    /\ lpc = "fetch"
    /\ Len(screens) < MaxPolls
    /\ \E a \in MetricsAnswers :
          LET m == collect_metrics(a, Now) IN
          /\ metrics' = m
          /\ metrics_history' = IF m # None THEN Append(metrics_history, m)
                                ELSE metrics_history
    /\ lpc' = StepAfter(prog, lpc)
    /\ UNCHANGED <<execVars, runVars, silent, ratingVars, suiteVars, decoded, prog, health, last_metrics,
                   screens, log_file, exit_code, interrupted>>

\* run_monitoring: the if metrics / else of one cycle
MonShow ==
    /\ prog = "monitor"
    /\ lpc = "show"
    /\ screens' = Append(screens, IF Truthy(metrics) THEN MonitorView ELSE UnableView)
    /\ lpc' = StepAfter(prog, lpc)
    /\ UNCHANGED <<execVars, runVars, silent, ratingVars, suiteVars, decoded, prog, metrics, health, last_metrics,
                   metrics_history, log_file, exit_code, interrupted>>

\* run_monitoring: await asyncio.sleep(interval) returns
MonWake ==
    /\ prog = "monitor"
    /\ lpc = "sleep"
    /\ lpc' = StepAfter(prog, lpc)
    /\ UNCHANGED <<execVars, runVars, silent, ratingVars, suiteVars, decoded, prog, metrics, health, last_metrics,
                   metrics_history, screens, log_file, exit_code, interrupted>>

\* SIGINT while the coroutine is suspended at an await (the sleep, the GET):
\* the task is cancelled, CancelledError passes except KeyboardInterrupt and
\* except Exception, and asyncio.run raises KeyboardInterrupt to the top level
MonInterruptAwait ==
    /\ prog = "monitor"
    /\ lpc \in {"fetch", "sleep"}
    /\ interrupted' = lpc
    /\ lpc' = "exited"
    /\ exit_code' = 130
    /\ UNCHANGED <<execVars, runVars, silent, ratingVars, suiteVars, decoded, prog, metrics, health, last_metrics,
                   metrics_history, screens, log_file>>

\* SIGINT while the coroutine runs between two awaits: either KeyboardInterrupt
\* is raised in the coroutine (the default handler) and the except clause of
\* run_monitoring saves the log, or the handler of asyncio.run cancels the
\* task and the cycle runs on to the sleep
MonInterruptSync ==
    /\ prog = "monitor"
    /\ lpc = "show"
    /\ interrupted' = lpc
    /\ lpc' = "exited"
    /\ \E in_coroutine \in BOOLEAN :
          IF in_coroutine
          THEN /\ log_file' = save_metrics_log(metrics_history, log_file, Now)
               /\ exit_code' = 0
               /\ screens' = screens
          ELSE /\ log_file' = log_file
               /\ exit_code' = 130
               /\ screens' = Append(screens, IF Truthy(metrics) THEN MonitorView
                                             ELSE UnableView)
    /\ UNCHANGED <<execVars, runVars, silent, ratingVars, suiteVars, decoded, prog, metrics, health, last_metrics,
                   metrics_history>>

InitLive ==
    /\ ExecIdle
    /\ RunIdle
    /\ silent = FALSE
    /\ RatingIdle
    /\ SuiteIdle
    /\ decoded = <<>>
    /\ prog \in {"dashboard", "monitor"}
    /\ lpc = "fetch"
    /\ metrics = None
    /\ health = None
    /\ last_metrics = None
    /\ metrics_history = <<>>
    /\ screens = <<>>
    /\ log_file = None
    /\ exit_code = NoExit
    /\ interrupted = "no"

NextLive ==
    \/ DashFetch
    \/ DashHealth
    \/ DashShow
    \/ DashWake
    \/ DashInterrupt
    \/ MonCollect
    \/ MonShow
    \/ MonWake
    \/ MonInterruptAwait
    \/ MonInterruptSync

SpecLive == InitLive /\ [][NextLive]_vars

----------------------------------------------------------------------------
(* Properties of the polling loops (SpecLive) *)

\* the view at position k is the first snapshot the dashboard displays
FirstSnapshotAt(k) ==
    /\ screens[k].view = "dashboard"
    /\ \A j \in 1..(k - 1) : screens[j].view = "unable"

\* the view printed its two trend fields
TrendsPrinted(v) == v.error \in {"", "ZeroDivisionError"}

\* C11: the first snapshot the dashboard fetches, after any number of failed
\* fetches, shows "initial" in both trend fields, never a delta; until a
\* snapshot was displayed no previous snapshot is stored.
C11_FirstSnapshotInitial ==
    prog = "dashboard" =>
        /\ \A k \in 1..Len(screens) :
              FirstSnapshotAt(k) =>
                 /\ TrendsPrinted(screens[k]) =>
                       /\ screens[k].streams = TrendInitial
                       /\ screens[k].requests = TrendInitial
                 /\ ~TrendsPrinted(screens[k]) =>
                       /\ screens[k].streams = <<>>
                       /\ screens[k].requests = <<>>
        /\ (\A k \in 1..Len(screens) : screens[k].view = "unable") => last_metrics = None

C11_Witness ==
    /\ prog = "dashboard"
    /\ Len(screens) = 3
    /\ screens[1].view = "unable"
    /\ screens[2].view = "unable"
    /\ FirstSnapshotAt(3)
    /\ screens[3].streams = TrendInitial
    /\ screens[3].requests = TrendInitial
    /\ last_metrics = Snapshot(5, 2)

\* the view at position p displayed the snapshot that view k is compared with
PreviousOf(k, p) ==
    /\ p < k
    /\ screens[p].view = "dashboard"
    /\ screens[p].error = ""
    /\ \A j \in (p + 1)..(k - 1) : screens[j].view = "unable"

\* the trend text the claim gives a counter that moved from previous to current
TrendOf(previous, current) ==
    IF current > previous THEN TrendUp(current - previous)
    ELSE IF current < previous THEN TrendDown(previous - current)
    ELSE TrendStable

\* C12: with a previous snapshot, each of the two counters shown with a trend
\* (active streams, total requests) renders up with +(current - previous)
\* when it grew, down with the magnitude when it shrank, stable when equal.
C12_TrendFollowsDelta ==
    prog = "dashboard" =>
        \A k \in 1..Len(screens), p \in 1..Len(screens) :
            (PreviousOf(k, p) /\ screens[k].view = "dashboard" /\ TrendsPrinted(screens[k])) =>
                /\ screens[k].streams = TrendOf(screens[p].counters[1], screens[k].counters[1])
                /\ screens[k].requests = TrendOf(screens[p].counters[2], screens[k].counters[2])

AllUnable == \A k \in 1..Len(screens) : screens[k].view = "unable"

\* C13: a failed metrics fetch (exception, timeout, other status, unreadable
\* body) never ends the dashboard: the cycle prints the unable/retrying view
\* and sleeps, the sleep is followed by the next fetch, and the process only
\* exits on an interrupt or on an error while displaying a fetched snapshot.
C13_FetchFailureRecoverable ==
    prog = "dashboard" =>
        /\ (lpc = "exited" /\ interrupted = "no") =>
              /\ exit_code = 1
              /\ screens # <<>>
              /\ Last(screens).view = "dashboard"
              /\ Last(screens).error # ""
        /\ (lpc = "sleep" /\ ~Truthy(metrics)) =>
              /\ Last(screens) = UnableView
              /\ exit_code = NoExit
        /\ (lpc = "sleep" /\ Truthy(metrics) /\ ~Truthy(health)) =>
              Last(screens).health = "UNREACHABLE"
        /\ (AllUnable /\ interrupted = "no") => lpc # "exited"
        /\ lpc = "sleep" => ENABLED DashWake
        /\ (lpc = "fetch" /\ Len(screens) < MaxPolls) => ENABLED DashFetch

C13_Witness ==
    /\ prog = "dashboard"
    /\ Len(screens) = 2
    /\ AllUnable
    /\ lpc = "health"
    /\ metrics = None
    /\ exit_code = NoExit

\* C14: an interrupt that arrives while the loop sleeps stops the loop at
\* that sleep (no further cycle), with no unhandled error: the process
\* exits with code 0.
C14_InterruptExitsCleanly ==
    interrupted = "sleep" =>
        /\ lpc = "exited"
        /\ exit_code = 0
        /\ ~ENABLED NextLive

InOrder(h) == \A i \in 1..Len(h), j \in 1..Len(h) : i < j => h[i].timestamp < h[j].timestamp

\* C15: in batch-log mode an interrupt, also one arriving during the sleep
\* between two cycles, flushes the snapshot history to the log before exit:
\* the log holds every snapshot collected so far, in collection order, and
\* is written at no other time.
C15_LogFlushedOnInterrupt ==
    prog = "monitor" =>
        /\ (interrupted # "no" /\ metrics_history # <<>>) =>
              /\ log_file # None
              /\ log_file.content = metrics_history
              /\ InOrder(log_file.content)
        /\ log_file # None => interrupted # "no"

----------------------------------------------------------------------------
(* SpecTimeout: one streaming request to a server that may stop sending *)

\* the text of the timeout exception: str(asyncio.TimeoutError())
TimeoutText == ""

\* a timeout bounds the request of tool t: aiohttp.ClientSession() carries the
\* total timeout of its defaults; requests.post is called without timeout
HasTimeout(t) == t \in {"perftest", "benchmark"}

InitTimeout ==
    /\ tool \in Tools
    /\ pc = "start"
    /\ status = 0
    /\ seen = <<>>
    /\ dec = NewDec
    /\ outcome = NoOutcome
    /\ cause = "none"
    /\ RunIdle
    /\ silent \in BOOLEAN
    /\ LiveIdle
    /\ RatingIdle
    /\ SuiteIdle
    /\ decoded = <<>>

\* the server goes silent in the middle of the body
ServerStalls ==
    /\ ~silent
    /\ pc \in {"response", "streaming"}
    /\ status = 200
    /\ silent' = TRUE
    /\ UNCHANGED <<execVars, runVars, liveVars, ratingVars, suiteVars, decoded>>

\* the timeout of the session ends the wait: except Exception
TimesOut ==
    /\ silent
    /\ HasTimeout(tool)
    /\ pc \in {"start", "response", "streaming"}
    /\ \E dur \in Durations :
          outcome' = ExceptOutcome(tool, ReqId, dur, dec, TimeoutText)
    /\ pc' = "returned"
    /\ cause' = "transport"
    /\ UNCHANGED <<runVars, silent, liveVars, ratingVars, suiteVars, decoded, tool, status, seen, dec>>

\* the request goes on while the server sends
Answering == ~silent /\ Next

NextTimeout ==
    \/ Answering
    \/ ServerStalls
    \/ TimesOut

SpecTimeout == InitTimeout /\ [][NextTimeout]_vars /\ WF_vars(NextTimeout)

\* C16: every network call carries a timeout, so a request to a server that
\* accepts the connection and never answers eventually returns, as a failed
\* Outcome (transport failure), instead of hanging.
C16_EveryRequestCompletes ==
    /\ <>Returned
    /\ [](silent /\ Returned => ~Succeeded(outcome) /\ cause = "transport")

----------------------------------------------------------------------------
(* SpecP95: a benchmark computes its BenchmarkResult from the durations it *)
(* collected                                                               *)

MaxSamples == 21   \* requests a benchmark of SpecP95 is planned with

\* n durations: lo for the first k requests that succeeded, hi for the others
Samples(n, k, lo, hi) == [i \in 1..n |-> IF i <= k THEN lo ELSE hi]

SampleLists ==
    {Samples(n, k, lo, hi) : n \in 0..MaxSamples, k \in 0..MaxSamples,
                             lo \in Durations, hi \in Durations}

\* the benchmark has sent its MaxSamples requests and is about to build its result
InitP95 ==
    /\ ExecIdle
    /\ silent = FALSE
    /\ LiveIdle
    /\ RatingIdle
    /\ SuiteIdle
    /\ decoded = <<>>
    /\ mode \in BenchModes
    /\ rpc = "report"
    /\ plan = IF mode = "bench_concurrent" THEN ClientPlan(1, MaxSamples)
              ELSE Plan(MaxSamples)
    /\ idx = MaxSamples
    /\ tasks = <<>>
    /\ results = <<>>
    /\ response_times \in SampleLists
    /\ failed_requests = IF mode = "bench_concurrent" THEN 0
                         ELSE MaxSamples - Len(response_times)
    /\ clock = MaxSamples * MaxDur
    /\ report = NoReport
    /\ answers = <<>>

NextP95 == BenchReturns

SpecP95 == InitP95 /\ [][NextP95]_vars

\* a <= r <= b for the fraction r
Between(a, r, b) == a * r.den <= r.num /\ r.num <= b * r.den

\* C17: with fewer than 20 successful durations the reported P95 is exactly
\* 0 whatever the durations are; with 20 or more it is a quantile of them
\* (between the smallest and the largest duration).
C17_SmallSampleP95Zero ==
    (mode \in BenchModes /\ rpc = "done") =>
        /\ Len(response_times) < 20 => report.p95_response_time = Whole(0)
        /\ Len(response_times) >= 20 =>
              /\ report.p95_response_time # Whole(0)
              /\ Between(MinSeq(response_times), report.p95_response_time,
                         MaxSeq(response_times))

C17_Witness ==
    /\ mode = "bench_concurrent"
    /\ rpc = "done"
    /\ Len(response_times) = 19
    /\ response_times[1] = 1
    /\ response_times[19] = 2
    /\ report.p95_response_time = Whole(0)
    /\ report.average_response_time # Whole(0)

----------------------------------------------------------------------------
(* Further properties of a run (SpecRun) *)

\* C18: every TestResult carries an error message if and only if its success
\* flag is false: those of the streaming executor, those made of gathered
\* exceptions and those of the error-injection mode.
C18_MessageIffFailed ==
    mode \in PT_Modes =>
        \A k \in 1..Len(results) :
            (results[k].error_message # "") = ~results[k].success

----------------------------------------------------------------------------
(* SpecRating: PerformanceMonitor.get_performance_rating on one trends dict *)

Half(n) == Ratio(2 * n - 1, 2)      \* n - 0.5

ResponseTimes == {Whole(0), Whole(999), Half(1000), Whole(1000), Half(2000), Whole(2000),
                  Half(5000), Whole(5000)}
SuccessRates == {Whole(0), Half(80), Whole(80), Half(90), Whole(90), Half(95), Whole(95),
                 Whole(100)}
MemoryUsages == {Whole(0), Half(500), Whole(500), Half(750), Whole(750)}

\* what calculate_performance_trends returns: {} with fewer than 2 snapshots
Trends(rt, sr, mem) ==
    [json |-> "dict", avg_response_time_ms |-> rt, success_rate_percent |-> sr,
     avg_memory_mb |-> mem]
TrendsDicts ==
    {EmptyDict} \cup {Trends(rt, sr, mem) : rt \in ResponseTimes, sr \in SuccessRates,
                                           mem \in MemoryUsages}

\* trends.get(key, 0)
TrendsGet(t, key) == IF key \in DOMAIN t THEN t[key] ELSE Whole(0)

\* r < n and r >= n for the fraction r and the integer n
Less(r, n) == r.num < n * r.den
\* the success-rate test with the comparison turned round
AtLeast_Reversed(r, n) == r.num <= n * r.den

\* r >= n for the fraction r and the integer n
AtLeast(r, n) == r.num >= n * r.den

\* the rows tried from the loosest to the strictest
get_performance_rating_LoosestFirst(t) ==
    LET response_time == TrendsGet(t, "avg_response_time_ms")
        success_rate == TrendsGet(t, "success_rate_percent")
        memory_usage == TrendsGet(t, "avg_memory_mb")
    IN IF Less(response_time, 5000) /\ AtLeast(success_rate, 80) THEN "FAIR"
       ELSE IF Less(response_time, 2000) /\ AtLeast(success_rate, 90)
               /\ Less(memory_usage, 750) THEN "GOOD"
       ELSE IF Less(response_time, 1000) /\ AtLeast(success_rate, 95)
               /\ Less(memory_usage, 500) THEN "EXCELLENT"
       ELSE "POOR"

\* PerformanceMonitor.get_performance_rating
get_performance_rating(t) ==
    LET response_time == TrendsGet(t, "avg_response_time_ms")
        success_rate == TrendsGet(t, "success_rate_percent")
        memory_usage == TrendsGet(t, "avg_memory_mb")
    IN IF Less(response_time, 1000) /\ AtLeast(success_rate, 95)
          /\ Less(memory_usage, 500) THEN "EXCELLENT"
       ELSE IF Less(response_time, 2000) /\ AtLeast(success_rate, 90)
               /\ Less(memory_usage, 750) THEN "GOOD"
       ELSE IF Less(response_time, 5000) /\ AtLeast(success_rate, 80) THEN "FAIR"
       ELSE "POOR"

InitRating ==
    /\ ExecIdle
    /\ RunIdle
    /\ silent = FALSE
    /\ LiveIdle
    /\ SuiteIdle
    /\ decoded = <<>>
    /\ trends \in TrendsDicts
    /\ rating = "none"

\* print_dashboard: rating = self.get_performance_rating(trends)
Rate ==
    /\ rating = "none"
    /\ rating' = get_performance_rating(trends)
    /\ UNCHANGED <<execVars, runVars, silent, liveVars, suiteVars, decoded, trends>>

NextRating == Rate

SpecRating == InitRating /\ [][NextRating]_vars

\* the three threshold rows of the claim, on the values the dict gives
RowExcellent ==
    /\ Less(TrendsGet(trends, "avg_response_time_ms"), 1000)
    /\ AtLeast(TrendsGet(trends, "success_rate_percent"), 95)
    /\ Less(TrendsGet(trends, "avg_memory_mb"), 500)
RowGood ==
    /\ Less(TrendsGet(trends, "avg_response_time_ms"), 2000)
    /\ AtLeast(TrendsGet(trends, "success_rate_percent"), 90)
    /\ Less(TrendsGet(trends, "avg_memory_mb"), 750)
RowFair ==
    /\ Less(TrendsGet(trends, "avg_response_time_ms"), 5000)
    /\ AtLeast(TrendsGet(trends, "success_rate_percent"), 80)

\* C19: the rating is exactly one of four tiers, the first row that matches,
\* strictest first: EXCELLENT (response < 1000, success >= 95, memory < 500),
\* else GOOD (< 2000, >= 90, < 750), else FAIR (< 5000, >= 80), else POOR.
C19_FirstMatchWins ==
    rating # "none" =>
        /\ rating \in {"EXCELLENT", "GOOD", "FAIR", "POOR"}
        /\ (rating = "EXCELLENT") = RowExcellent
        /\ (rating = "GOOD") = (~RowExcellent /\ RowGood)
        /\ (rating = "FAIR") = (~RowExcellent /\ ~RowGood /\ RowFair)
        /\ (rating = "POOR") = (~RowExcellent /\ ~RowGood /\ ~RowFair)

C19_Witness ==
    /\ trends = Trends(Whole(0), Whole(100), Whole(500))
    /\ RowGood
    /\ RowFair
    /\ rating = "GOOD"

\* C20: when the user interrupts a batch run after some requests completed,
\* the Outcomes collected up to then are still reported: the aggregate is
\* computed over exactly them.
C20_PartialOutcomesReported ==
    (rpc = "interrupted" /\ results # <<>>) =>
        /\ report # NoReport
        /\ report = calculate_metrics(results)

----------------------------------------------------------------------------
(* SpecSuite: one whole execution of a tool, its test modes in the order    *)
(* main runs them.                                                          *)
(*   scripts/performance-test.py  PerformanceTester.run_all_tests           *)
(*   monitor-streaming.py         main                                      *)
(* A step is one test mode run to its end; the Outcomes of a mode are taken *)
(* in the order of their requests (the interleavings inside a mode are      *)
(* SpecRun's).                                                              *)

\* f"large_{i}"
LargeId(i) == "large_" \o ToString(i)

PT_LargeTests == 3     \* test_large_responses: len(large_content_tests)

\* what the streaming requests of an execution meet
SuiteAnswers == {AnsOk, Ans500}

\* what the error scenarios of an execution meet: a rejection, or a 200 that
\* does not mention an error
SuiteScenarioAnswers ==
    {Answer(400, ErrorBody, <<>>, FALSE, "", 1), Answer(200, CleanBody, <<>>, FALSE, "", 1)}

\* the Outcomes of the requests of tool t with the ids given, answered by as
RunRequests(t, ids, as) == [k \in 1..Len(ids) |-> Execute(t, ids[k], as[k])]

InitSuite ==
    /\ ExecIdle
    /\ RunIdle
    /\ silent = FALSE
    /\ LiveIdle
    /\ RatingIdle
    /\ suite \in {"perftest", "monitor"}
    /\ phase = IF suite = "perftest" THEN "concurrent" ELSE "ms_rate"
    /\ num_streams \in IF suite = "perftest" THEN 0..MaxStreams ELSE {0}
    /\ all_results = <<>>
    /\ overall = NoReport
    /\ decoded = <<>>

\* run_all_tests, Test 1: test_concurrent_streams(concurrent_streams)
Suite_Concurrent ==
    /\ suite = "perftest"
    /\ phase = "concurrent"
    /\ \E as \in [1..num_streams -> SuiteAnswers] :
          all_results' = all_results
              \o ValidResults(RunRequests("perftest", [k \in 1..num_streams |-> TestId(k - 1)], as))
    /\ phase' = "rate"
    /\ UNCHANGED <<execVars, runVars, silent, liveVars, ratingVars, decoded, suite, num_streams, overall>>

\* run_all_tests, Test 2: test_rate_limiting()
Suite_Rate ==
    /\ suite = "perftest"
    /\ phase = "rate"
    /\ \E as \in [1..PT_RateRequests -> SuiteAnswers] :
          all_results' = all_results
              \o RunRequests("perftest", [k \in 1..PT_RateRequests |-> RateId(k - 1)], as)
    /\ phase' = "large"
    /\ UNCHANGED <<execVars, runVars, silent, liveVars, ratingVars, decoded, suite, num_streams, overall>>

\* run_all_tests, Test 3: test_large_responses()
Suite_Large ==
    /\ suite = "perftest"
    /\ phase = "large"
    /\ \E as \in [1..PT_LargeTests -> SuiteAnswers] :
          all_results' = all_results
              \o RunRequests("perftest", [k \in 1..PT_LargeTests |-> LargeId(k - 1)], as)
    /\ phase' = "errors"
    /\ UNCHANGED <<execVars, runVars, silent, liveVars, ratingVars, decoded, suite, num_streams, overall>>

\* run_all_tests, Test 4: test_error_scenarios()
Suite_Errors ==
    /\ suite = "perftest"
    /\ phase = "errors"
    /\ \E as \in [1..PT_ErrorTests -> SuiteScenarioAnswers] :
          all_results' = all_results
              \o [k \in 1..PT_ErrorTests |-> PT_ErrorResult(k - 1, as[k])]
    /\ phase' = "summary"
    /\ UNCHANGED <<execVars, runVars, silent, liveVars, ratingVars, decoded, suite, num_streams, overall>>

\* run_all_tests: the rating printed under the overall summary
OverallRating(m) ==
    IF AtLeast(m.success_rate, 95) /\ Less(m.average_duration, 3) THEN "EXCELLENT"
    ELSE IF AtLeast(m.success_rate, 90) /\ Less(m.average_duration, 5) THEN "GOOD"
    ELSE "NEEDS IMPROVEMENT"

\* run_all_tests: the overall summary
Suite_Summary ==
    /\ suite = "perftest"
    /\ phase = "summary"
    /\ overall' = calculate_metrics(all_results)
    /\ rating' = OverallRating(overall')
    /\ phase' = "done"
    /\ UNCHANGED <<execVars, runVars, silent, liveVars, trends, decoded, suite, num_streams, all_results>>

\* main: monitor.test_rate_limiting()
Suite_MS_Rate ==
    /\ suite = "monitor"
    /\ phase = "ms_rate"
    /\ \E as \in [1..MS_RateRequests -> SuiteAnswers] :
          all_results' = all_results
              \o RunRequests("monitor", [k \in 1..MS_RateRequests |-> k - 1], as)
    /\ phase' = "ms_concurrent"
    /\ UNCHANGED <<execVars, runVars, silent, liveVars, ratingVars, decoded, suite, num_streams, overall>>

\* main: the wait, then monitor.test_concurrent_streams()
Suite_MS_Concurrent ==
    /\ suite = "monitor"
    /\ phase = "ms_concurrent"
    /\ \E as \in [1..MS_Streams -> SuiteAnswers] :
          all_results' = all_results
              \o RunRequests("monitor", [k \in 1..MS_Streams |-> k - 1], as)
    /\ phase' = "ms_errors"
    /\ UNCHANGED <<execVars, runVars, silent, liveVars, ratingVars, decoded, suite, num_streams, overall>>

\* main: monitor.test_error_scenarios(), which prints and keeps no Outcome
Suite_MS_Errors ==
    /\ suite = "monitor"
    /\ phase = "ms_errors"
    /\ phase' = "done"
    /\ UNCHANGED <<execVars, runVars, silent, liveVars, ratingVars, decoded, suite, num_streams, all_results, overall>>

NextSuite ==
    \/ Suite_Concurrent
    \/ Suite_Rate
    \/ Suite_Large
    \/ Suite_Errors
    \/ Suite_Summary
    \/ Suite_MS_Rate
    \/ Suite_MS_Concurrent
    \/ Suite_MS_Errors

SpecSuite == InitSuite /\ [][NextSuite]_vars

----------------------------------------------------------------------------
(* Properties of a whole execution (SpecSuite) *)

\* the id an Outcome carries: test_name, or request_id
OutcomeId(r) == IF "test_name" \in DOMAIN r THEN r.test_name ELSE r.request_id

\* C21: Outcome ids are unique within a run: no two Outcomes produced during
\* one execution of a tool, across all of its test modes, carry the same id.
C21_IdsUnique ==
    \A j, k \in 1..Len(all_results) :
        j # k => OutcomeId(all_results[j]) # OutcomeId(all_results[k])

----------------------------------------------------------------------------
(* Further properties of the polling loops (SpecLive) *)

\* the view displayed a snapshot to its end
Complete(v) == v.view = "dashboard" /\ v.error = ""

\* the last view that displayed a snapshot to its end is at position p
LastCompleteAt(p) ==
    /\ Complete(screens[p])
    /\ \A j \in (p + 1)..Len(screens) : ~Complete(screens[j])

\* the active and total counts a stored snapshot shows
CountersOf(m) == IF HasStreams(m) THEN <<m.streams.active, m.streams.total>> ELSE <<0, 0>>

\* the stored snapshot is the one the last complete view displayed
StoredIsLastDisplayed ==
    /\ (last_metrics = None) = (\A k \in 1..Len(screens) : ~Complete(screens[k]))
    /\ \A p \in 1..Len(screens) :
          LastCompleteAt(p) => CountersOf(last_metrics) = screens[p].counters
    /\ (lpc = "sleep" /\ Truthy(metrics)) => last_metrics = metrics

\* what a cycle's display step does to the stored snapshot
StoredFollowsDisplay ==
    /\ last_metrics' # last_metrics =>
          /\ lpc = "show"
          /\ lpc' = "sleep"
          /\ Truthy(metrics)
          /\ last_metrics' = metrics
          /\ Complete(Last(screens'))
          /\ Truthy(last_metrics) =>
                /\ Last(screens').streams =
                      TrendOf(last_metrics.streams.active, metrics.streams.active)
                /\ Last(screens').requests # TrendInitial
    /\ (lpc = "show" /\ lpc' = "sleep" /\ ~Truthy(metrics)) =>
          /\ last_metrics' = last_metrics
          /\ screens' = Append(screens, UnableView)
          /\ Last(screens').streams = <<>>
    /\ (lpc = "show" /\ lpc' = "sleep" /\ Truthy(metrics)) => last_metrics' = metrics

\* C22: the stored previous snapshot always equals the most recent snapshot
\* that was fetched and displayed (none before the first): a failed fetch
\* leaves it unchanged and computes no trend, and the next successful fetch
\* computes its trend against the retained snapshot and then replaces it.
C22_PreviousIsLastDisplayed ==
    /\ [](prog = "dashboard" => StoredIsLastDisplayed)
    /\ [][prog = "dashboard" => StoredFollowsDisplay]_vars

C22_Witness ==
    /\ prog = "dashboard"
    /\ lpc = "sleep"
    /\ Len(screens) = 3
    /\ Complete(screens[1])
    /\ screens[1].counters = <<2, 2>>
    /\ screens[2] = UnableView
    /\ Complete(screens[3])
    /\ screens[3].streams = TrendUp(3)
    /\ last_metrics = Snapshot(5, 5)

\* the positions of one cycle of program p, in order
CycleOf(p) ==
    IF p = "dashboard" THEN <<"fetch", "health", "show", "sleep">>
    ELSE <<"fetch", "show", "sleep">>

\* b follows a in the cycle q, the first step following the last
FollowsIn(q, a, b) ==
    \E i \in 1..Len(q) : q[i] = a /\ q[(i % Len(q)) + 1] = b

\* a step of the loop goes to the next position of the cycle q or leaves the
\* loop; only the fetch steps assign the locals, only the display step prints,
\* and it prints one view
CycleSteps(q) ==
    /\ lpc' # lpc => (lpc' = "exited" \/ FollowsIn(q, lpc, lpc'))
    /\ metrics' # metrics => lpc = "fetch"
    /\ health' # health => lpc = "health"
    /\ screens' # screens => (lpc = "show" /\ Len(screens') = Len(screens) + 1)
    /\ (lpc = "show" /\ lpc' = "sleep") => Len(screens') = Len(screens) + 1
    /\ lpc' = "fetch" => lpc \in {"fetch", "sleep"}

\* C23, as stated: poll cycles never overlap: in each cycle the steps occur
\* in the order fetch metrics, fetch health, render (exactly one view per
\* cycle), sleep, and the next cycle's fetch starts only after the sleep.
C23_FetchHealthRenderSleep ==
    [][(prog \in {"dashboard", "monitor"}) =>
          CycleSteps(<<"fetch", "health", "show", "sleep">>)]_vars

\* C23, amended: poll cycles never overlap: a cycle of the dashboard is fetch
\* metrics, fetch health, render, sleep; a cycle of the batch-log monitor is
\* fetch metrics, render, sleep, with no health fetch; each cycle renders
\* exactly one view and the next fetch starts only after the sleep.
C23_CycleInOrder ==
    [][(prog \in {"dashboard", "monitor"}) => CycleSteps(CycleOf(prog))]_vars

C23_Witness ==
    /\ prog = "monitor"
    /\ lpc = "fetch"
    /\ Len(screens) = 2
    /\ exit_code = NoExit

----------------------------------------------------------------------------
(* Properties of the concurrent drivers (SpecRun) *)

\* the requests in flight
InFlight == {c \in DOMAIN tasks : tasks[c].inflight}

\* the index of request r of client c in the history of answers
RequestOf(c, r) == c * plan.per_client + r

\* the requests of client c that have been answered
AnsweredOf(c) == {r \in 0..(plan.per_client - 1) : RequestOf(c, r) \in DOMAIN answers}

\* C24: with C clients of R requests each, at most C requests are in flight
\* at any instant, a client has at most one request outstanding and sends its
\* next only after the previous one completed, and the driver returns only
\* after all C x R requests have finished.
C24_ClientsSequential ==
    mode = "bench_concurrent" =>
        /\ Cardinality(InFlight) <= plan.clients
        /\ \A c \in DOMAIN tasks :
              /\ AnsweredOf(c) = 0..(tasks[c].i - 1)
              /\ tasks[c].i <= plan.per_client
              /\ tasks[c].inflight => tasks[c].i < plan.per_client
        /\ rpc \in {"report", "done", "raised"} =>
              /\ InFlight = {}
              /\ DOMAIN tasks = 0..(plan.clients - 1)
              /\ Cardinality(DOMAIN answers) = plan.clients * plan.per_client
              /\ \A c \in DOMAIN tasks : tasks[c].i = plan.per_client

C24_Witness ==
    /\ mode = "bench_concurrent"
    /\ rpc = "gather"
    /\ plan = ClientPlan(MaxClients, MaxPerClient)
    /\ Cardinality(InFlight) = MaxClients
    /\ tasks[0].i = 1
    /\ tasks[1].i = 0

----------------------------------------------------------------------------
(* SpecBody: PerformanceTester.test_single_stream on a 200 response whose   *)
(* whole body is given: seen holds every line the server sends, also those  *)
(* after the sentinel.                                                      *)

\* the bodies of up to MaxLines lines
Bodies == UNION {[1..n -> Lines] : n \in 0..MaxLines}

InitBody ==
    /\ RunIdle
    /\ silent = FALSE
    /\ LiveIdle
    /\ RatingIdle
    /\ SuiteIdle
    /\ decoded = <<>>
    /\ tool = "perftest"
    /\ pc = "response"
    /\ status = 200
    /\ seen \in Bodies
    /\ dec = NewDec
    /\ outcome = NoOutcome
    /\ cause = "none"

\* the async for over response.content, and the return after it
ReadBody ==
    /\ pc = "response"
    /\ dec' = Drain(tool, NewDec, seen)
    /\ \E dur \in Durations : outcome' = SuccessOutcome(tool, ReqId, dur, dec')
    /\ pc' = "returned"
    /\ UNCHANGED <<runVars, silent, liveVars, ratingVars, suiteVars, decoded, tool, status, seen, cause>>

NextBody == ReadBody

SpecBody == InitBody /\ [][NextBody]_vars

\* lines whose payload is the sentinel
SentinelLines == {LDone, LDoneWide}

RECURSIVE BeforeSentinel(_)
\* the lines of a body that come before its first sentinel
BeforeSentinel(body) ==
    IF body = <<>> \/ Head(body) \in SentinelLines THEN <<>>
    ELSE <<Head(body)>> \o BeforeSentinel(Tail(body))

\* the number of characters of the payload of a line that parses
PayloadLength(line) ==
    CASE line \in {LGoodA, LGoodB} -> 39
      [] line = LPadded -> 26
      [] line = LNonObj -> 3
      [] OTHER -> 0

RECURSIVE PayloadLengths(_)
PayloadLengths(body) ==
    IF body = <<>> THEN 0
    ELSE (IF Head(body) \in ParsedLines THEN PayloadLength(Head(body)) ELSE 0)
         + PayloadLengths(Tail(body))

\* C25: for a streamed 200 response, chunks_received is the number of lines
\* before the sentinel whose payload parses, and bytes_received is the sum of
\* the lengths of exactly those payloads; malformed, blank and post-sentinel
\* lines add nothing to either count.
C25_CountsAreParsedPayloads ==
    (tool = "perftest" /\ Returned /\ status = 200 /\ cause = "none") =>
        /\ outcome.success
        /\ outcome.chunks_received = CountIn(BeforeSentinel(seen), ParsedLines)
        /\ outcome.bytes_received = PayloadLengths(BeforeSentinel(seen))

C25_Witness ==
    /\ tool = "perftest"
    /\ Returned
    /\ seen = <<LPadded, LDone, LGoodA>>
    /\ outcome.chunks_received = 1
    /\ outcome.bytes_received = 26

----------------------------------------------------------------------------
(* Properties of the aggregates (SpecRun, SpecSuite) *)

RECURSIVE SuccessfulDurations(_)
\* the durations of the successful Outcomes of a result list
SuccessfulDurations(rs) ==
    IF rs = <<>> THEN <<>>
    ELSE (IF Head(rs).success THEN <<Head(rs).duration>> ELSE <<>>)
         \o SuccessfulDurations(Tail(rs))

\* the mean of a list of durations, 0 for none
MeanOrZero(q) == IF q # <<>> THEN Mean(q) ELSE Whole(0)

\* C26: the average duration (and the percentile) of an aggregate are
\* computed only over the durations of the successful Outcomes: a failed
\* Outcome's duration never changes the average.
C26_AverageOverSuccessful ==
    /\ (mode \in PT_Modes /\ rpc = "done") =>
          report.average_duration = MeanOrZero(SuccessfulDurations(results))
    /\ (mode \in BenchModes /\ rpc = "done") =>
          /\ report.average_response_time = MeanOrZero(response_times)
          /\ report.p95_response_time = P95(response_times)

\* the non-streaming requests answered so far with status 200 and a body
\* that parses as a completion
CompletionsReceived ==
    {i \in DOMAIN answers :
        answers[i].status = 200 /\ ~answers[i].fault /\ answers[i].body = "{completion}"}

\* C27: a non-streaming request is a success only if the status is 200 and
\* the body is parseable as a completion; a 200 with an unparseable body is
\* recorded as failed.
C27_SuccessNeedsCompletion ==
    /\ mode = "bench_caching" =>
          /\ Len(response_times) = Cardinality(CompletionsReceived)
          /\ failed_requests = idx - Cardinality(CompletionsReceived)
    /\ (mode = "bench_concurrent" /\ rpc \in {"report", "done"}) =>
          Len(response_times) = Cardinality(CompletionsReceived)

\* the Outcomes of the error scenarios of an execution, and the others
ErrorNames == {ErrorName(i) : i \in 0..(PT_ErrorTests - 1)}
GenericResults == SelectSeq(all_results, LAMBDA r : r.test_name \notin ErrorNames)

\* C28: the results of the error scenarios are not merged into the generic
\* success and failure counts: the overall success rate is not raised by a
\* server rejection that the error mode counted as a success.
C28_ErrorResultsKeptApart ==
    (suite = "perftest" /\ phase = "done") =>
        /\ overall.total_tests = Len(GenericResults)
        /\ overall.successful_tests = Len(SelectSuccess(GenericResults, TRUE))
        /\ overall.failed_tests = Len(SelectSuccess(GenericResults, FALSE))
        /\ overall.success_rate =
               SuccessRate(Len(SelectSuccess(GenericResults, TRUE)), Len(GenericResults))

----------------------------------------------------------------------------
(* Properties of the dashboard on incomplete snapshots (SpecLive) *)

\* the cycle fetched a snapshot: a JSON object, with whatever fields
FetchedSnapshot(m) == "json" \in DOMAIN m /\ m.json = "dict"

\* C29: a snapshot with absent fields (no 'streams' group, no 'active' or
\* 'total', maxConcurrent 0) is handled with the default 0 in every poll
\* cycle, the trend computation included, and never terminates the
\* dashboard.
C29_AbsentFieldsDefaultZero ==
    prog = "dashboard" =>
        /\ (lpc = "exited" /\ interrupted = "no") => ~FetchedSnapshot(metrics)
        /\ \A k \in 1..Len(screens) :
              screens[k].view = "dashboard" => screens[k].error \in {"", "AttributeError"}

----------------------------------------------------------------------------
(* SpecTrends: PerformanceMonitor.calculate_performance_trends and the      *)
(* rating print_dashboard derives from it, on the history as it is after a  *)
(* successful collection.                                                   *)

MaxHistory == 12       \* snapshots collected before the cycle that is shown
RecentWindow == 10     \* self.metrics_history[-10:]
MiB == 1048576         \* 1024*1024

\* a snapshot of /metrics as collect_metrics stores it at time t
PerfSnapshot(dur, heap_mb, t) ==
    [json |-> "dict", timestamp |-> t,
     performance |-> [averageStreamDuration |-> dur, chunksPerSecond |-> 4],
     memory |-> [heapUsed |-> heap_mb * MiB],
     streams |-> [active |-> 2, total |-> 10, successful |-> 10]]

\* the kinds of snapshot a history is made of: a slow and a fast server, and
\* a snapshot without any of the groups
SnapshotKinds == {"slow", "fast", "bare"}
SnapshotOf(kind, t) ==
    CASE kind = "slow" -> PerfSnapshot(6000, 150, t)
      [] kind = "fast" -> PerfSnapshot(500, 100, t)
      [] kind = "bare" -> [json |-> "dict", timestamp |-> t]

\* n snapshots: the first k of one kind, the others of another
History(n, k, old, new) ==
    [i \in 1..n |-> IF i <= k THEN SnapshotOf(old, i) ELSE SnapshotOf(new, i)]
Histories ==
    {History(n, k, old, new) :
        n \in 1..MaxHistory, k \in 0..MaxHistory, old \in SnapshotKinds, new \in SnapshotKinds}

\* the averages taken over the whole history
Recent_All(h) == h

\* self.metrics_history[-10:]
Recent(h) ==
    IF Len(h) > RecentWindow THEN SubSeq(h, Len(h) - RecentWindow + 1, Len(h)) ELSE h

\* m.get(group, {}).get(key, 0)
GetIn(m, group, key) ==
    IF group \in DOMAIN m /\ key \in DOMAIN m[group] THEN m[group][key] ELSE 0

RECURSIVE SumOver(_, _, _)
\* sum(m.get(group, {}).get(key, 0) for m in q)
SumOver(q, group, key) ==
    IF q = <<>> THEN 0 ELSE GetIn(Head(q), group, key) + SumOver(Tail(q), group, key)

\* calculate_performance_trends computing trends from the first snapshot on
calculate_performance_trends_FromFirst(h) ==
    IF Len(h) < 1 THEN EmptyDict
    ELSE LET recent == Recent(h)
             last == recent[Len(recent)]
             total_requests == GetIn(last, "streams", "total")
             successful_requests == GetIn(last, "streams", "successful")
         IN [json |-> "dict",
             avg_response_time_ms |->
                 Ratio(SumOver(recent, "performance", "averageStreamDuration"), Len(recent)),
             avg_throughput_chunks_sec |->
                 Ratio(SumOver(recent, "performance", "chunksPerSecond"), Len(recent)),
             avg_memory_mb |->
                 Ratio(SumOver(recent, "memory", "heapUsed"), Len(recent) * MiB),
             success_rate_percent |->
                 IF total_requests > 0
                 THEN Ratio(successful_requests * 100, total_requests) ELSE Whole(0),
             total_requests |-> total_requests,
             active_streams |-> GetIn(last, "streams", "active"),
             connection_pool_stats |->
                 IF "connectionPool" \in DOMAIN last THEN last.connectionPool ELSE EmptyDict]

\* PerformanceMonitor.calculate_performance_trends
calculate_performance_trends(h) ==
    IF Len(h) < 2 THEN EmptyDict
    ELSE LET recent == Recent(h)
             last == recent[Len(recent)]
             total_requests == GetIn(last, "streams", "total")
             successful_requests == GetIn(last, "streams", "successful")
         IN [json |-> "dict",
             avg_response_time_ms |->
                 Ratio(SumOver(recent, "performance", "averageStreamDuration"), Len(recent)),
             avg_throughput_chunks_sec |->
                 Ratio(SumOver(recent, "performance", "chunksPerSecond"), Len(recent)),
             avg_memory_mb |->
                 Ratio(SumOver(recent, "memory", "heapUsed"), Len(recent) * MiB),
             success_rate_percent |->
                 IF total_requests > 0
                 THEN Ratio(successful_requests * 100, total_requests) ELSE Whole(0),
             total_requests |-> total_requests,
             active_streams |-> GetIn(last, "streams", "active"),
             connection_pool_stats |->
                 IF "connectionPool" \in DOMAIN last THEN last.connectionPool ELSE EmptyDict]

InitTrends ==
    /\ ExecIdle
    /\ RunIdle
    /\ silent = FALSE
    /\ RatingIdle
    /\ SuiteIdle
    /\ decoded = <<>>
    /\ prog = "monitor"
    /\ lpc = "show"
    /\ metrics_history \in Histories
    /\ metrics = Last(metrics_history)
    /\ health = None
    /\ last_metrics = None
    /\ screens = <<>>
    /\ log_file = None
    /\ exit_code = NoExit
    /\ interrupted = "no"

\* run_monitoring: trends = self.calculate_performance_trends() and
\* print_dashboard(metrics, trends), which prints the rating
ShowTrends ==
    /\ prog = "monitor"
    /\ lpc = "show"
    /\ trends = None
    /\ trends' = calculate_performance_trends(metrics_history)
    /\ rating' = get_performance_rating(trends')
    /\ UNCHANGED <<execVars, runVars, silent, liveVars, suiteVars, decoded>>

NextTrends == ShowTrends

SpecTrends == InitTrends /\ [][NextTrends]_vars

\* the smaller of two numbers
Min(a, b) == IF a < b THEN a ELSE b

RECURSIVE SumFrom(_, _, _, _)
\* the sum of a field over the snapshots at positions i..Len(h) of a history
SumFrom(h, i, group, key) ==
    IF i > Len(h) THEN 0 ELSE GetIn(h[i], group, key) + SumFrom(h, i + 1, group, key)

\* the history without the snapshots older than the last ten
WithoutOlder(h) == [i \in 1..Min(Len(h), 10) |-> h[Len(h) - Min(Len(h), 10) + i]]

\* C30: in batch-log mode, after k >= 2 collections the trend averages are
\* taken over exactly the most recent min(k, 10) snapshots: a snapshot older
\* than the last 10 never influences the averages or the rating.
C30_AveragesOverLastTen ==
    (trends # None /\ Len(metrics_history) >= 2) =>
        LET k == Len(metrics_history)
            w == Min(k, 10)
        IN /\ trends.avg_response_time_ms =
                  Ratio(SumFrom(metrics_history, k - w + 1, "performance",
                                "averageStreamDuration"), w)
           /\ trends.avg_throughput_chunks_sec =
                  Ratio(SumFrom(metrics_history, k - w + 1, "performance",
                                "chunksPerSecond"), w)
           /\ trends.avg_memory_mb =
                  Ratio(SumFrom(metrics_history, k - w + 1, "memory", "heapUsed"), w * MiB)
           /\ trends = calculate_performance_trends(WithoutOlder(metrics_history))
           /\ rating = get_performance_rating(calculate_performance_trends(WithoutOlder(metrics_history)))

C30_Witness ==
    /\ Len(metrics_history) = 11
    /\ metrics_history[1] = SnapshotOf("slow", 1)
    /\ \A i \in 2..11 : metrics_history[i] = SnapshotOf("fast", i)
    /\ trends # None
    /\ trends.avg_response_time_ms = Whole(500)
    /\ trends.avg_memory_mb = Whole(100)
    /\ rating = "EXCELLENT"

----------------------------------------------------------------------------
(* SpecDecoders: the read loops of the four stream decoders run on the same *)
(* body of a 200 response (seen holds every line the server sends).         *)

Decoders == {"perftest", "monitor", "streamfix", "benchmark"}

RECURSIVE LinesRead(_, _, _)
\* the number of lines the loop of decoder t takes from the body before it
\* is left (by break, by an exception, or at the end of the body)
LinesRead(t, d, lines) ==
    IF lines = <<>> \/ d.done \/ d.raised THEN 0
    ELSE 1 + LinesRead(t, ReadStep(t, d, Head(lines)), Tail(lines))

\* what decoder t makes of a body
Decode(t, body) ==
    LET d == Drain(t, NewDec, body) IN
    [stop |-> LinesRead(t, NewDec, body), chunks |-> d.chunks,
     done |-> d.done, raised |-> d.raised]

InitDecoders ==
    /\ RunIdle
    /\ silent = FALSE
    /\ LiveIdle
    /\ RatingIdle
    /\ SuiteIdle
    /\ decoded = <<>>
    /\ tool = "none"
    /\ pc = "response"
    /\ status = 200
    /\ seen \in Bodies
    /\ dec = NewDec
    /\ outcome = NoOutcome
    /\ cause = "none"

\* each decoder reads the body
DecodeBody ==
    /\ pc = "response"
    /\ tool = "none"
    /\ decoded = <<>>
    /\ decoded' = [t \in Decoders |-> Decode(t, seen)]
    /\ pc' = "returned"
    /\ UNCHANGED <<runVars, silent, liveVars, ratingVars, suiteVars, tool, status, seen, dec,
                   outcome, cause>>

NextDecoders == DecodeBody

SpecDecoders == InitDecoders /\ [][NextDecoders]_vars

\* the decoders that count chunks
CountingDecoders == {"perftest", "monitor", "streamfix"}

\* C31: for any sequence of streamed lines, all stream decoders of the
\* harness stop at the same line, and those that count chunks report the
\* same number of well-formed chunks.
C31_DecodersAgree ==
    decoded # <<>> =>
        /\ \A t, u \in Decoders : decoded[t].stop = decoded[u].stop
        /\ \A t, u \in CountingDecoders : decoded[t].chunks = decoded[u].chunks

----------------------------------------------------------------------------
(* Properties of the monitor's first cycles (SpecTrends) *)

\* the success rate the last snapshot of the history gives
LastSuccessRate ==
    LET m == Last(metrics_history) IN
    IF "streams" \in DOMAIN m /\ m.streams.total > 0
    THEN Ratio(m.streams.successful * 100, m.streams.total) ELSE Whole(0)

\* C32: in batch-log mode, in the cycle where the first snapshot is collected
\* (history length 1) no trends are computed (the trends record is empty), so
\* the displayed success rate is 0 and the rating is POOR whatever the
\* snapshot's values are; a rating derived from real values appears only
\* from the second successful collection on.
C32_FirstCycleRatesPoor ==
    trends # None =>
        /\ Len(metrics_history) = 1 =>
              /\ trends = EmptyDict
              /\ TrendsGet(trends, "success_rate_percent") = Whole(0)
              /\ rating = "POOR"
        /\ Len(metrics_history) >= 2 =>
              /\ trends # EmptyDict
              /\ trends.success_rate_percent = LastSuccessRate
              /\ (rating = "EXCELLENT") = RowExcellent
              /\ (rating = "POOR") = (~RowExcellent /\ ~RowGood /\ ~RowFair)

C32_Witness ==
    /\ metrics_history = <<SnapshotOf("fast", 1)>>
    /\ trends = EmptyDict
    /\ rating = "POOR"

\* the second collection of the same values is rated on them
C32_SecondCycleWitness ==
    /\ metrics_history = <<SnapshotOf("fast", 1), SnapshotOf("fast", 2)>>
    /\ rating = "EXCELLENT"

----------------------------------------------------------------------------
(* Further properties of the rating classifier (SpecRating) *)

\* the tiers from worst to best
Tier(r) == CASE r = "EXCELLENT" -> 3 [] r = "GOOD" -> 2 [] r = "FAIR" -> 1 [] OTHER -> 0

\* a <= b for two fractions
LeqRatio(a, b) == a.num * b.den <= b.num * a.den

\* the inputs of t2 are no worse than those of t: the response time and the
\* memory usage no higher, the success rate no lower
NoWorse(t2, t) ==
    /\ LeqRatio(TrendsGet(t2, "avg_response_time_ms"), TrendsGet(t, "avg_response_time_ms"))
    /\ LeqRatio(TrendsGet(t, "success_rate_percent"), TrendsGet(t2, "success_rate_percent"))
    /\ LeqRatio(TrendsGet(t2, "avg_memory_mb"), TrendsGet(t, "avg_memory_mb"))

\* the best tier whose row holds on the rated values
BestTier ==
    IF RowExcellent THEN "EXCELLENT" ELSE IF RowGood THEN "GOOD"
    ELSE IF RowFair THEN "FAIR" ELSE "POOR"

\* C33: the rating classifier is monotone: lowering the response time,
\* raising the success rate or lowering the memory usage never yields a
\* worse tier; every row's condition implies the condition of each later
\* row, so first-match returns the best tier whose condition holds.
C33_RatingMonotone ==
    (rating # "none" /\ trends \in TrendsDicts) =>
        /\ \A t2 \in TrendsDicts :
              NoWorse(t2, trends) => Tier(get_performance_rating(t2)) >= Tier(rating)
        /\ RowExcellent => RowGood
        /\ RowGood => RowFair
        /\ rating = BestTier

C33_Witness ==
    /\ trends = Trends(Whole(1000), Whole(95), Whole(0))
    /\ rating = "GOOD"
    /\ get_performance_rating(Trends(Whole(999), Whole(95), Whole(0))) = "EXCELLENT"
    /\ get_performance_rating(Trends(Whole(1000), Half(95), Whole(0))) = "GOOD"

====
